---- MODULE Spec2Model ----
(***************************************************************************)
(* Faceted aggregation engine of the Maxi Care dashboard (src/app.py).     *)
(*                                                                         *)
(* Text values (identifiers, advisor names, descriptions) are sequences of *)
(* one-character strings, so that indexing, upper-casing, trimming and     *)
(* lexical comparison are computed as Python computes them.  Facet values  *)
(* for division and month are TLA+ strings.  A pandas DataFrame is a       *)
(* record [columns, rows]: the sequence of column names and the sequence   *)
(* of rows, each row a function from the column names to cell values.      *)
(***************************************************************************)
EXTENDS Integers, Sequences, FiniteSets, Bags, TLC

VARIABLES labour_df, spares_df, op, args, filtered, result, earlier, job, ui

vars == <<labour_df, spares_df, op, args, filtered, result, earlier, job, ui>>

----------------------------------------------------------------------------
(* Bounds of the model *)

\* Rows of a loaded sheet, and characters of an identifier after its fifth.
MaxRows == 2
MaxSuffix == 1

----------------------------------------------------------------------------
(* Cell values *)

\* A missing text cell (NaN in an object column): a one-element sequence
\* whose element is not a character.
Null == <<"NaN">>
\* A missing date (NaT) and a missing number (NaN).
NaT == 0
NaN == 0 - 1
\* Python None passed as a facet value (division, month).
None == "<None>"
\* Python None passed as the advisor facet value.
NoneText == <<"None">>

\* Characters of the model's alphabet in ascending code point order.
Chars == <<" ", "0", "1", "2", "5", "A", "B", "C", "K", "O", "R", "Z",
           "a", "b", "c", "i", "k", "l", "n", "o", "r", "z">>

Ord(c) == CHOOSE i \in 1..Len(Chars) : Chars[i] = c

\* str.upper() on one character of the alphabet.
LowerToUpper == [a |-> "A", b |-> "B", c |-> "C", d |-> "D", e |-> "E", f |-> "F", g |-> "G",
                 h |-> "H", i |-> "I", j |-> "J", k |-> "K", l |-> "L", m |-> "M", n |-> "N",
                 o |-> "O", p |-> "P", q |-> "Q", r |-> "R", s |-> "S", t |-> "T", u |-> "U",
                 v |-> "V", w |-> "W", x |-> "X", y |-> "Y", z |-> "Z"]

upper(c) == IF c \in DOMAIN LowerToUpper THEN LowerToUpper[c] ELSE c

\* str(x) of a text cell: NaN prints as "nan".
str(x) == IF x = Null THEN <<"n", "a", "n">> ELSE x

RECURSIVE lstrip(_)
lstrip(s) == IF s # <<>> /\ Head(s) = " " THEN lstrip(Tail(s)) ELSE s

RECURSIVE rstrip(_)
rstrip(s) == IF s # <<>> /\ s[Len(s)] = " " THEN rstrip(SubSeq(s, 1, Len(s) - 1)) ELSE s

\* str.strip()
strip(s) == rstrip(lstrip(s))

\* Python's < on str: lexicographic by code point.
RECURSIVE StrLess(_, _)
StrLess(s, t) ==
    IF t = <<>> THEN FALSE
    ELSE IF s = <<>> THEN TRUE
    ELSE IF Head(s) # Head(t) THEN Ord(Head(s)) < Ord(Head(t))
    ELSE StrLess(Tail(s), Tail(t))

\* sorted(...) of a set of strings.
RECURSIVE sorted(_)
sorted(S) ==
    IF S = {} THEN <<>>
    ELSE LET m == CHOOSE x \in S : \A y \in S \ {x} : StrLess(x, y)
         IN <<m>> \o sorted(S \ {m})

Range(s) == {s[i] : i \in DOMAIN s}

----------------------------------------------------------------------------
(* Program constants *)

MONTH_NAMES == <<"Jan", "Feb", "Mar", "Apr", "May", "Jun",
                 "Jul", "Aug", "Sep", "Oct", "Nov", "Dec">>

FINANCIAL_YEAR_ORDER == <<"Apr", "May", "Jun", "Jul", "Aug", "Sep",
                          "Oct", "Nov", "Dec", "Jan", "Feb", "Mar">>

DIVISION_MAPPING == [A |-> "HO", B |-> "AMT", C |-> "CITY", D |-> "YAT", G |-> "WAG",
                     L |-> "SHI", M |-> "CHA", R |-> "KOL", U |-> "CHI"]

----------------------------------------------------------------------------
(* DivisionResolver and FiscalCalendar *)

\* The 5th character looked up without upper-casing it.
get_division_from_ro_case_sensitive(s) ==
    IF Len(s) >= 5
    THEN IF s[5] \in DOMAIN DIVISION_MAPPING THEN DIVISION_MAPPING[s[5]] ELSE "Unknown"
    ELSE "Unknown"

get_division_from_ro(s) ==
    IF Len(s) >= 5
    THEN LET letter == upper(s[5])
         IN IF letter \in DOMAIN DIVISION_MAPPING THEN DIVISION_MAPPING[letter] ELSE "Unknown"
    ELSE "Unknown"

\* A missing date read as a date of the first month.
get_month_name_of_missing_date(date) ==
    IF date # NaT
    THEN IF date \in DOMAIN MONTH_NAMES THEN MONTH_NAMES[date] ELSE ""
    ELSE MONTH_NAMES[1]

get_month_name(date) ==
    IF date # NaT
    THEN IF date \in DOMAIN MONTH_NAMES THEN MONTH_NAMES[date] ELSE ""
    ELSE ""

----------------------------------------------------------------------------
(* DataFrames *)

\* pd.DataFrame(): no columns, no rows.
EmptyDataFrame == [columns |-> <<>>, rows |-> <<>>]

\* df.empty
empty(df) == Len(df.rows) = 0 \/ Len(df.columns) = 0

\* c in df.columns
HasCol(df, c) == c \in Range(df.columns)

\* Python truthiness of a facet value: None and "" are falsy.
Truthy(v) == v # None /\ v # ""

\* Truthiness of the advisor facet, a text value.
TruthyText(v) == v # NoneText /\ v # <<>>

\* Series.sum(): missing numbers are skipped.
RECURSIVE SeriesSum(_, _)
SeriesSum(rows, col) ==
    IF rows = <<>> THEN 0
    ELSE (IF Head(rows)[col] = NaN THEN 0 ELSE Head(rows)[col]) + SeriesSum(Tail(rows), col)

\* (df[a] * df[b]).sum(): a product with a missing factor is missing.
RECURSIVE ProductSum(_, _, _)
ProductSum(rows, a, b) ==
    IF rows = <<>> THEN 0
    ELSE (IF Head(rows)[a] = NaN \/ Head(rows)[b] = NaN THEN 0 ELSE Head(rows)[a] * Head(rows)[b])
         + ProductSum(Tail(rows), a, b)

\* Series.count(): the number of non-missing text cells.
RECURSIVE SeriesCount(_, _)
SeriesCount(rows, col) ==
    IF rows = <<>> THEN 0
    ELSE (IF Head(rows)[col] = Null THEN 0 ELSE 1) + SeriesCount(Tail(rows), col)

\* The three facet predicates, in the order every operation applies them.
filter_division(df, idcol, division) ==
    IF Truthy(division) /\ HasCol(df, idcol)
    THEN LET Test(r) == get_division_from_ro(str(r[idcol])) = division
         IN [df EXCEPT !.rows = SelectSeq(df.rows, Test)]
    ELSE df

\* The rows of the month taken as a slice that starts one row late.
filter_month_one_row_late(df, datecol, month) ==
    IF Truthy(month) /\ HasCol(df, datecol)
    THEN LET Test(r) == get_month_name(r[datecol]) = month
             kept == SelectSeq(df.rows, Test)
         IN [df EXCEPT !.rows = IF kept = <<>> THEN kept ELSE Tail(kept)]
    ELSE df

filter_month(df, datecol, month) ==
    IF Truthy(month) /\ HasCol(df, datecol)
    THEN LET Test(r) == get_month_name(r[datecol]) = month
         IN [df EXCEPT !.rows = SelectSeq(df.rows, Test)]
    ELSE df

filter_advisor(df, advisor) ==
    IF TruthyText(advisor) /\ HasCol(df, "Service Advisor")
    THEN LET Test(r) == strip(str(r["Service Advisor"])) = advisor
         IN [df EXCEPT !.rows = SelectSeq(df.rows, Test)]
    ELSE df

\* The predicates chained as alternatives: only the first facet that
\* carries a value is applied.
apply_filters_first_only(df, idcol, datecol, division, month, advisor) ==
    IF Truthy(division) /\ HasCol(df, idcol) THEN filter_division(df, idcol, division)
    ELSE IF Truthy(month) /\ HasCol(df, datecol) THEN filter_month(df, datecol, month)
    ELSE filter_advisor(df, advisor)

apply_filters(df, idcol, datecol, division, month, advisor) ==
    filter_advisor(filter_month(filter_division(df, idcol, division), datecol, month), advisor)

----------------------------------------------------------------------------
(* Cascading facet options *)

\* Series.dropna().unique() of a text column, as a set.
NonNullValues(rows, col) == {rows[i][col] : i \in DOMAIN rows} \ {Null}

\* sorted(list(divisions)) for a set of division codes: the codes of
\* DIVISION_MAPPING in ascending string order.
SortedCodes(divisions) ==
    LET Test(d) == d \in divisions
    IN SelectSeq(<<"AMT", "CHA", "CHI", "CITY", "HO", "KOL", "SHI", "WAG", "YAT">>, Test)

\* The divisions listed without dropping Unknown.
get_divisions_keeping_unknown(df, idcol) ==
    IF empty(df) \/ ~HasCol(df, idcol) THEN <<>>
    ELSE LET divisions == {get_division_from_ro(str(ro_no)) : ro_no \in NonNullValues(df.rows, idcol)}
         IN IF "Unknown" \in divisions THEN SortedCodes(divisions) \o <<"Unknown">>
            ELSE SortedCodes(divisions)

get_divisions(df, idcol) ==
    IF empty(df) \/ ~HasCol(df, idcol) THEN <<>>
    ELSE LET divisions == {get_division_from_ro(str(ro_no)) : ro_no \in NonNullValues(df.rows, idcol)}
                          \ {"Unknown"}
         IN SortedCodes(divisions)

\* [m for m in FINANCIAL_YEAR_ORDER if m in months]
InFinancialYearOrder(months) ==
    LET Test(m) == m \in months IN SelectSeq(FINANCIAL_YEAR_ORDER, Test)

\* The months of the non-missing dates of a frame.
MonthsOfDates(rows, datecol) ==
    {get_month_name(rows[i][datecol]) : i \in {j \in DOMAIN rows : rows[j][datecol] # NaT}} \ {""}

get_months_for_division(df, idcol, datecol, division) ==
    IF empty(df) \/ ~HasCol(df, idcol) \/ ~HasCol(df, datecol) THEN <<>>
    ELSE IF ~Truthy(division)
         THEN InFinancialYearOrder(MonthsOfDates(df.rows, datecol))
         ELSE LET Test(r) == get_division_from_ro(str(r[idcol])) = division
                  f == SelectSeq(df.rows, Test)
              IN InFinancialYearOrder(MonthsOfDates(f, datecol))

\* The advisor values listed as they are stored, untrimmed.
get_advisors_any_untrimmed(df, idcol, datecol, division, month) ==
    IF empty(df) \/ ~HasCol(df, "Service Advisor") THEN <<>>
    ELSE LET f == filter_month(filter_division(df, idcol, division), datecol, month)
             advisors == {str(a) : a \in NonNullValues(f.rows, "Service Advisor")} \ {<<>>}
         IN sorted(advisors)

get_advisors_any(df, idcol, datecol, division, month) ==
    IF empty(df) \/ ~HasCol(df, "Service Advisor") THEN <<>>
    ELSE LET f == filter_month(filter_division(df, idcol, division), datecol, month)
             advisors == {strip(str(a)) : a \in NonNullValues(f.rows, "Service Advisor")} \ {<<>>}
         IN sorted(advisors)

----------------------------------------------------------------------------
(* Labour aggregates *)

dis_col == "Labour Basic Amount-DIS"
tot_col == "Labour Total Amount"

\* The sums taken over the loaded frame instead of the filtered one.
get_labour_summary_unfiltered_sums(df, division, month, advisor) ==
    IF empty(df) THEN [total_items |-> 0, total_dis |-> 0, total_amount |-> 0]
    ELSE LET f == apply_filters(df, "RO No.", "Bill Date", division, month, advisor)
         IN IF empty(f) THEN [total_items |-> 0, total_dis |-> 0, total_amount |-> 0]
            ELSE [total_items |-> Len(f.rows),
                  total_dis |-> IF HasCol(f, dis_col) THEN SeriesSum(df.rows, dis_col) ELSE 0,
                  total_amount |-> IF HasCol(f, tot_col) THEN SeriesSum(df.rows, tot_col) ELSE 0]

get_labour_summary(df, division, month, advisor) ==
    IF empty(df) THEN [total_items |-> 0, total_dis |-> 0, total_amount |-> 0]
    ELSE LET f == apply_filters(df, "RO No.", "Bill Date", division, month, advisor)
         IN IF empty(f) THEN [total_items |-> 0, total_dis |-> 0, total_amount |-> 0]
            ELSE [total_items |-> Len(f.rows),
                  total_dis |-> IF HasCol(f, dis_col) THEN SeriesSum(f.rows, dis_col) ELSE 0,
                  total_amount |-> IF HasCol(f, tot_col) THEN SeriesSum(f.rows, tot_col) ELSE 0]

\* Every row taken into the group, whatever its key.
GroupRows_whatever_key(rows, col, k) == rows

\* The rows of one group of df.groupby(col): those whose key is k.
GroupRows(rows, col, k) ==
    LET Test(r) == r[col] = k IN SelectSeq(rows, Test)

\* The group keys in the order in which the rows first show them.
GroupKeys_first_seen(rows, col) ==
    LET First(i) == rows[i][col] # Null /\ \A j \in 1..(i - 1) : rows[j][col] # rows[i][col]
        seen == SelectSeq([i \in DOMAIN rows |-> i], First)
    IN [n \in DOMAIN seen |-> rows[seen[n]][col]]

\* The group keys of df.groupby(col): missing keys are dropped and the
\* groups come out sorted by key.
GroupKeys(rows, col) == sorted(NonNullValues(rows, col))

\* One row of filtered.groupby("Labour Description").agg(agg_map), after
\* the renames and the defaults for the absent amount columns.
labour_group(f, k) ==
    LET g == GroupRows(f.rows, "Labour Description", k)
    IN [key |-> k,
        count |-> IF HasCol(f, "RO No.") THEN SeriesCount(g, "RO No.") ELSE Len(g),
        dis |-> IF HasCol(f, dis_col) THEN SeriesSum(g, dis_col) ELSE 0,
        tot |-> IF HasCol(f, tot_col) THEN SeriesSum(g, tot_col) ELSE 0]

labour_grouped(f) ==
    LET keys == GroupKeys(f.rows, "Labour Description")
    IN [i \in DOMAIN keys |-> labour_group(f, keys[i])]

\* The local frame of get_labour_data, and of the labour report, once the
\* aggregation map is built: the helper column _rowcount_ is set on it when
\* it has no "RO No." column to count.
with_rowcount(f) ==
    IF ~empty(f) /\ HasCol(f, "Labour Description") /\ ~HasCol(f, "RO No.")
    THEN [columns |-> Append(f.columns, "_rowcount_"),
          rows |-> [i \in DOMAIN f.rows |-> f.rows[i] @@ ("_rowcount_" :> 1)]]
    ELSE f

\* The handler working on the loaded frame itself: with no record selected
\* away its local frame is the loaded frame, which takes the helper column.
loaded_after_handler_without_copy(df, local) ==
    IF Len(local.rows) = Len(df.rows) THEN local ELSE df

\* The loaded frame after a handler that started from df.copy() and left
\* its local frame as local: the copy took every change.
loaded_after_handler(df, local) == df

get_labour_data(df, division, month, advisor) ==
    IF empty(df) THEN <<>>
    ELSE LET f == apply_filters(df, "RO No.", "Bill Date", division, month, advisor)
         IN IF empty(f) THEN <<>>
            ELSE IF ~HasCol(f, "Labour Description") THEN <<>>
            ELSE LET grouped == labour_grouped(f)
                 IN [i \in DOMAIN grouped |->
                        ("Labour Description" :> str(grouped[i].key))
                        @@ ("count" :> grouped[i].count)
                        @@ ("Labour Basic Amount-DIS" :> grouped[i].dis)
                        @@ ("Labour Total Amount" :> grouped[i].tot)]

\* The labour divisions with Unknown among them.
get_labour_divisions_with_unknown(df) == get_divisions_keeping_unknown(df, "RO No.")

get_labour_divisions(df) == get_divisions(df, "RO No.")

get_labour_months_for_division(df, division) ==
    get_months_for_division(df, "RO No.", "Bill Date", division)

get_labour_advisors_any(df, division, month) ==
    get_advisors_any(df, "RO No.", "Bill Date", division, month)

----------------------------------------------------------------------------
(* Labour report *)

required_cols == <<"RO No.", "RO Date", "RO Status", "Registration No", "Chassis No.", "Vehicle Model",
                   "Sale Date", "Customer Name", "Kilometer", "Service Advisor", "Service Type",
                   "Sublet Code", "Labour in/Out", "Sublet Amount", "Labour Code", "Labour Description",
                   "STD Hours", "Techncn Name 1", "Techncn Name 2", "Techncn Name 3",
                   "Labour Basic Amount", "Discount Amount", "Labour Basic Amount-DIS",
                   "Tax Amount", "Labour Total Amount", "Billable Type", "Bill Date">>

\* filtered[present_cols]
Project(df, columns) ==
    [columns |-> columns,
     rows |-> [i \in DOMAIN df.rows |-> [c \in Range(columns) |-> df.rows[i][c]]]]

\* The filtered frame written as it is, with every column it has.
labour_details_every_column(f) == f

labour_details(f) ==
    LET InFrame(c) == HasCol(f, c)
        present_cols == SelectSeq(required_cols, InFrame)
    IN IF present_cols # <<>> THEN Project(f, present_cols) ELSE f

labour_sheet_row(label, name, count, without_tax, with_tax) ==
    (label :> name) @@ ("Count" :> count) @@ ("Without Tax" :> without_tax) @@ ("With Tax" :> with_tax)

\* The records of month m and, with them, the records without a date.
m_filtered_with_undated(f, m) ==
    LET Test(r) == get_month_name(r["Bill Date"]) \in {m, ""} IN SelectSeq(f.rows, Test)

\* m_filtered: the records of the filtered frame whose date falls in month m.
m_filtered_of(f, m) ==
    LET Test(r) == get_month_name(r["Bill Date"]) = m IN SelectSeq(f.rows, Test)

\* The loop over FINANCIAL_YEAR_ORDER from its i-th month on; acc holds the
\* rows appended so far and the three running totals.
RECURSIVE labour_month_loop(_, _, _)
labour_month_loop(f, i, acc) ==
    IF i > Len(FINANCIAL_YEAR_ORDER) \/ ~HasCol(f, "Bill Date") THEN acc
    ELSE LET m == FINANCIAL_YEAR_ORDER[i]
             m_filtered == m_filtered_of(f, m)
             count == Len(m_filtered)
             without_tax == IF HasCol(f, dis_col) THEN SeriesSum(m_filtered, dis_col) ELSE 0
             with_tax == IF HasCol(f, tot_col) THEN SeriesSum(m_filtered, tot_col) ELSE 0
         IN IF m_filtered # <<>>
            THEN labour_month_loop(f, i + 1,
                    [rows |-> Append(acc.rows, labour_sheet_row("Month", m, count, without_tax, with_tax)),
                     total_count |-> acc.total_count + count,
                     total_without_tax |-> acc.total_without_tax + without_tax,
                     total_with_tax |-> acc.total_with_tax + with_tax])
            ELSE labour_month_loop(f, i + 1, acc)

\* The Grand Total row taken from the whole filtered frame.
labour_month_summary_recomputed(f) ==
    LET acc == labour_month_loop(f, 1,
                  [rows |-> <<>>, total_count |-> 0, total_without_tax |-> 0, total_with_tax |-> 0])
    IN IF acc.rows # <<>>
       THEN Append(acc.rows, labour_sheet_row("Month", "Grand Total", Len(f.rows),
                                 IF HasCol(f, dis_col) THEN SeriesSum(f.rows, dis_col) ELSE 0,
                                 IF HasCol(f, tot_col) THEN SeriesSum(f.rows, tot_col) ELSE 0))
       ELSE acc.rows

labour_month_summary(f) ==
    LET acc == labour_month_loop(f, 1,
                  [rows |-> <<>>, total_count |-> 0, total_without_tax |-> 0, total_with_tax |-> 0])
    IN IF acc.rows # <<>>
       THEN Append(acc.rows, labour_sheet_row("Month", "Grand Total",
                                 acc.total_count, acc.total_without_tax, acc.total_with_tax))
       ELSE acc.rows

\* The loop over get_labour_divisions() from its i-th division on, each
\* division aggregated over the loaded frame df.
RECURSIVE labour_div_loop(_, _, _, _)
labour_div_loop(df, divs, i, acc) ==
    IF i > Len(divs) THEN acc
    ELSE LET div == divs[i]
             Test(r) == get_division_from_ro(str(r["RO No."])) = div
             df_div == IF ~empty(df) /\ HasCol(df, "RO No.")
                       THEN [df EXCEPT !.rows = SelectSeq(df.rows, Test)] ELSE df
             count == Len(df_div.rows)
             without_tax == IF ~empty(df_div) /\ HasCol(df_div, dis_col)
                            THEN SeriesSum(df_div.rows, dis_col) ELSE 0
             with_tax == IF ~empty(df_div) /\ HasCol(df_div, tot_col)
                         THEN SeriesSum(df_div.rows, tot_col) ELSE 0
         IN labour_div_loop(df, divs, i + 1,
                [rows |-> Append(acc.rows, labour_sheet_row("Division", div, count, without_tax, with_tax)),
                 total_count |-> acc.total_count + count,
                 total_without_tax |-> acc.total_without_tax + without_tax,
                 total_with_tax |-> acc.total_with_tax + with_tax])

\* The Grand Total row appended to the division rows, if there is any.
labour_div_totals(acc) ==
    IF acc.rows # <<>>
    THEN Append(acc.rows, labour_sheet_row("Division", "Grand Total",
                              acc.total_count, acc.total_without_tax, acc.total_with_tax))
    ELSE acc.rows

\* The division rows and running totals before the first division.
NoDivisionRows == [rows |-> <<>>, total_count |-> 0, total_without_tax |-> 0, total_with_tax |-> 0]

labour_div_summary(df) ==
    labour_div_totals(labour_div_loop(df, get_labour_divisions(df), 1, NoDivisionRows))

labour_desc_sheet(f) ==
    IF HasCol(f, "Labour Description")
    THEN LET g == labour_grouped(f)
         IN [i \in DOMAIN g |->
                labour_sheet_row("Labour Description", g[i].key, g[i].count, g[i].dis, g[i].tot)]
    ELSE <<>>

\* The division summary taken from the filtered frame.
export_labour_data_divisions_of_filtered(df, division, month, advisor) ==
    LET f == IF ~empty(df)
             THEN apply_filters(df, "RO No.", "Bill Date", division, month, advisor)
             ELSE df
    IN IF empty(f)
       THEN [details |-> EmptyDataFrame, month_summary |-> <<>>,
             div_summary |-> <<>>, dimension |-> <<>>]
       ELSE [details |-> labour_details(f),
             month_summary |-> labour_month_summary(f),
             div_summary |-> labour_div_summary(f),
             dimension |-> labour_desc_sheet(f)]

\* The four sheets handed to the workbook writer.
export_labour_data(df, division, month, advisor) ==
    LET f == IF ~empty(df)
             THEN apply_filters(df, "RO No.", "Bill Date", division, month, advisor)
             ELSE df
    IN IF empty(f)
       THEN [details |-> EmptyDataFrame, month_summary |-> <<>>,
             div_summary |-> <<>>, dimension |-> <<>>]
       ELSE [details |-> labour_details(f),
             month_summary |-> labour_month_summary(f),
             div_summary |-> labour_div_summary(df),
             dimension |-> labour_desc_sheet(f)]

----------------------------------------------------------------------------
(* Spares aggregates *)

qty_col == "Final Qty"
ndp_col == "NDP PRIC*Qty"
sell_col == "Selling Price/Landed Cost (Total of Issued Qty)"
mrp_col == "MRP (Per Qty)"

get_spares_divisions(df) == get_divisions(df, "RO Number")

get_spares_months_for_division(df, division) ==
    get_months_for_division(df, "RO Number", "Doc Date", division)

get_spares_advisors_any(df, division, month) ==
    get_advisors_any(df, "RO Number", "Doc Date", division, month)

get_spares_summary(df, division, month, advisor) ==
    IF empty(df) THEN [total_ndp |-> 0, total_selling |-> 0, total_mrp |-> 0]
    ELSE LET f == apply_filters(df, "RO Number", "Doc Date", division, month, advisor)
         IN IF empty(f) THEN [total_ndp |-> 0, total_selling |-> 0, total_mrp |-> 0]
            ELSE [total_ndp |-> IF HasCol(f, ndp_col) THEN SeriesSum(f.rows, ndp_col) ELSE 0,
                  total_selling |-> IF HasCol(f, sell_col) THEN SeriesSum(f.rows, sell_col) ELSE 0,
                  total_mrp |-> IF HasCol(f, qty_col) /\ HasCol(f, mrp_col)
                                THEN ProductSum(f.rows, qty_col, mrp_col) ELSE 0]

\* A quotient of two integers in lowest terms; den = 0 stands for a float NaN.
RECURSIVE Gcd(_, _)
Gcd(a, b) == IF b = 0 THEN a ELSE Gcd(b, a % b)

Quotient(num, den) ==
    IF den = 0 THEN [num |-> 0, den |-> 0]
    ELSE LET g == Gcd(IF num < 0 THEN 0 - num ELSE num, den)
         IN IF g = 0 THEN [num |-> 0, den |-> 1] ELSE [num |-> num \div g, den |-> den \div g]

\* Series.mean(): the mean of the non-missing numbers, NaN when there is none.
SeriesMean(rows, col) ==
    LET Present(r) == r[col] # NaN
    IN Quotient(SeriesSum(rows, col), Len(SelectSeq(rows, Present)))

\* One row of filtered.groupby("Part Desc").agg(agg_map), after the
\* defaults for the absent columns and the derived MRP_Total column.
spares_group(f, k) ==
    LET g == GroupRows(f.rows, "Part Desc", k)
        qty == IF HasCol(f, qty_col) THEN SeriesSum(g, qty_col) ELSE 0
        mrp == IF HasCol(f, mrp_col) THEN SeriesMean(g, mrp_col) ELSE [num |-> 0, den |-> 1]
    IN [key |-> k,
        qty |-> qty,
        ndp |-> IF HasCol(f, ndp_col) THEN SeriesSum(g, ndp_col) ELSE 0,
        sell |-> IF HasCol(f, sell_col) THEN SeriesSum(g, sell_col) ELSE 0,
        MRP_Total |-> Quotient(qty * mrp.num, mrp.den)]

get_spares_data(df, division, month, advisor) ==
    IF empty(df) THEN <<>>
    ELSE LET f == apply_filters(df, "RO Number", "Doc Date", division, month, advisor)
         IN IF empty(f) THEN <<>>
            ELSE IF ~HasCol(f, "Part Desc") THEN <<>>
            \* agg({}) raises, and the except clause returns []
            ELSE IF Range(f.columns) \cap {qty_col, ndp_col, sell_col, mrp_col} = {} THEN <<>>
            ELSE LET keys == GroupKeys(f.rows, "Part Desc")
                 IN [i \in DOMAIN keys |->
                       LET g == spares_group(f, keys[i])
                       IN [part_desc |-> str(g.key), final_qty |-> g.qty, ndp_price_qty |-> g.ndp,
                           selling_price_total |-> g.sell, mrp_total |-> g.MRP_Total]]

----------------------------------------------------------------------------
(* Spares report *)

spares_sheet_row(label, name, qty, ndp, selling, mrp_val) ==
    (label :> name) @@ ("Final Qty" :> qty) @@ ("NDP Value" :> ndp)
    @@ ("Selling Price" :> selling) @@ ("MRP Value" :> mrp_val)

spares_aggregates(df_rows, cols) ==
    [qty |-> IF qty_col \in cols THEN SeriesSum(df_rows, qty_col) ELSE 0,
     ndp |-> IF ndp_col \in cols THEN SeriesSum(df_rows, ndp_col) ELSE 0,
     selling |-> IF sell_col \in cols THEN SeriesSum(df_rows, sell_col) ELSE 0,
     mrp_val |-> IF qty_col \in cols /\ mrp_col \in cols
                 THEN ProductSum(df_rows, qty_col, mrp_col) ELSE 0]

spares_accumulate(acc, label, name, a) ==
    [rows |-> Append(acc.rows, spares_sheet_row(label, name, a.qty, a.ndp, a.selling, a.mrp_val)),
     total_qty |-> acc.total_qty + a.qty,
     total_ndp |-> acc.total_ndp + a.ndp,
     total_selling |-> acc.total_selling + a.selling,
     total_mrp |-> acc.total_mrp + a.mrp_val]

\* The Grand Total row appended even when no row was emitted.
spares_totals_row_always(label, acc) ==
    Append(acc.rows, spares_sheet_row(label, "Grand Total",
                         acc.total_qty, acc.total_ndp, acc.total_selling, acc.total_mrp))

spares_totals_row(label, acc) ==
    IF acc.rows # <<>>
    THEN Append(acc.rows, spares_sheet_row(label, "Grand Total",
                              acc.total_qty, acc.total_ndp, acc.total_selling, acc.total_mrp))
    ELSE acc.rows

ZeroTotals == [rows |-> <<>>, total_qty |-> 0, total_ndp |-> 0, total_selling |-> 0, total_mrp |-> 0]

RECURSIVE spares_month_loop(_, _, _)
spares_month_loop(f, i, acc) ==
    IF i > Len(FINANCIAL_YEAR_ORDER) \/ ~HasCol(f, "Doc Date") THEN acc
    ELSE LET m == FINANCIAL_YEAR_ORDER[i]
             Test(r) == get_month_name(r["Doc Date"]) = m
             m_filtered == SelectSeq(f.rows, Test)
         IN IF m_filtered # <<>>
            THEN spares_month_loop(f, i + 1,
                    spares_accumulate(acc, "Month", m, spares_aggregates(m_filtered, Range(f.columns))))
            ELSE spares_month_loop(f, i + 1, acc)

spares_month_summary(f) == spares_totals_row("Month", spares_month_loop(f, 1, ZeroTotals))

RECURSIVE spares_div_loop(_, _, _, _)
spares_div_loop(df, divs, i, acc) ==
    IF i > Len(divs) THEN acc
    ELSE LET div == divs[i]
             Test(r) == get_division_from_ro(str(r["RO Number"])) = div
             df_div == IF ~empty(df) /\ HasCol(df, "RO Number")
                       THEN [df EXCEPT !.rows = SelectSeq(df.rows, Test)] ELSE df
             a == IF ~empty(df_div) THEN spares_aggregates(df_div.rows, Range(df_div.columns))
                  ELSE [qty |-> 0, ndp |-> 0, selling |-> 0, mrp_val |-> 0]
         IN spares_div_loop(df, divs, i + 1, spares_accumulate(acc, "Division", div, a))

spares_div_summary(df) ==
    spares_totals_row("Division", spares_div_loop(df, get_spares_divisions(df), 1, ZeroTotals))

\* pd.to_numeric(...).fillna(0.0) of a cell, 0.0 for a cell of an absent column.
Filled(f, r, col) == IF HasCol(f, col) /\ r[col] # NaN THEN r[col] ELSE 0

RECURSIVE FilledSum(_, _, _)
FilledSum(f, rows, col) ==
    IF rows = <<>> THEN 0 ELSE Filled(f, Head(rows), col) + FilledSum(f, Tail(rows), col)

RECURSIVE FilledProductSum(_, _)
FilledProductSum(f, rows) ==
    IF rows = <<>> THEN 0
    ELSE Filled(f, Head(rows), qty_col) * Filled(f, Head(rows), mrp_col) + FilledProductSum(f, Tail(rows))

part_desc_sheet(f) ==
    IF ~empty(f) /\ HasCol(f, "Part Desc")
    THEN LET keys == GroupKeys(f.rows, "Part Desc")
         IN [i \in DOMAIN keys |->
               LET g == GroupRows(f.rows, "Part Desc", keys[i])
               IN ("Part Desc" :> keys[i]) @@ ("Spare Count" :> FilledSum(f, g, qty_col))
                  @@ ("NDP Value" :> FilledSum(f, g, ndp_col))
                  @@ ("Selling Price" :> FilledSum(f, g, sell_col))
                  @@ ("MRP Value" :> FilledProductSum(f, g))]
    ELSE <<>>

export_spares_data(df, division, month, advisor) ==
    LET f == IF ~empty(df)
             THEN apply_filters(df, "RO Number", "Doc Date", division, month, advisor)
             ELSE df
    IN [details |-> f,
        month_summary |-> spares_month_summary(f),
        div_summary |-> spares_div_summary(df),
        dimension |-> part_desc_sheet(f)]

----------------------------------------------------------------------------
(* Loaded datasets *)

\* Text values used in the sample records.
ROC == <<"R", "O", "2", "5", "C">>
ROc == <<"R", "O", "2", "5", "c", "1">>
ROA == <<"R", "O", "2", "5", "A">>
AB == <<"A", "B">>
Ali == <<"A", "l", "i">>
AliPadded == <<" ", "A", "l", "i", " ">>
Bo == <<"B", "o">>
Blank == <<" ">>
Oil == <<"O", "i", "l">>
oil == <<"o", "i", "l">>
Brak == <<"B", "r", "a", "k">>

\* The columns of the labour sheet in the order the sheet has them, which is
\* not the order of required_cols; "Remarks" stands for a column of the sheet
\* that the program never names.
LabourColumns == <<"Labour Description", "RO No.", "Remarks", "Service Advisor",
                   "Labour Total Amount", "Labour Basic Amount-DIS", "Bill Date">>

LabourRecord(ro, adv, desc, dis, tot, date) ==
    ("RO No." :> ro) @@ ("Service Advisor" :> adv) @@ ("Labour Description" :> desc)
    @@ ("Labour Basic Amount-DIS" :> dis) @@ ("Labour Total Amount" :> tot) @@ ("Bill Date" :> date)
    @@ ("Remarks" :> Null)

LabourRecords ==
    << LabourRecord(ROC, Ali, Oil, 100, 118, 4),
       LabourRecord(ROc, AliPadded, Oil, 200, 236, 10),
       LabourRecord(ROA, Bo, Brak, 50, 59, 4),
       LabourRecord(AB, Null, Brak, NaN, 10, NaT),
       LabourRecord(Null, Blank, oil, 30, 35, 1) >>

SparesColumns == <<"RO Number", "Service Advisor", "Part Desc", "Final Qty", "NDP PRIC*Qty",
                   "Selling Price/Landed Cost (Total of Issued Qty)", "MRP (Per Qty)", "Doc Date">>

SparesRecord(ro, adv, desc, qty, ndp, sell, mrp, date) ==
    ("RO Number" :> ro) @@ ("Service Advisor" :> adv) @@ ("Part Desc" :> desc)
    @@ ("Final Qty" :> qty) @@ ("NDP PRIC*Qty" :> ndp)
    @@ ("Selling Price/Landed Cost (Total of Issued Qty)" :> sell)
    @@ ("MRP (Per Qty)" :> mrp) @@ ("Doc Date" :> date)

SparesRecords ==
    << SparesRecord(ROC, Ali, Oil, 2, 20, 30, 15, 4),
       SparesRecord(ROc, AliPadded, Oil, 1, 12, 16, 18, 10),
       SparesRecord(ROA, Bo, Brak, 4, 40, 60, 7, 4),
       SparesRecord(AB, Null, Null, NaN, 5, NaN, 3, NaT),
       SparesRecord(Null, Blank, oil, 3, 9, 11, NaN, 1) >>

\* pd.read_excel of a sheet that lacks the columns in missing, followed by
\* the assignment of the date column, which creates it when the sheet has
\* none: the date column is present in every loaded frame.
read_excel(columns, records, missing) ==
    LET Kept(c) == c \notin missing
        cols == SelectSeq(columns, Kept)
    IN [columns |-> cols,
        rows |-> [i \in DOMAIN records |-> [c \in Range(cols) |-> records[i][c]]]]

\* The columns the two sheets lack, chosen together.
MissingColumns ==
    << [labour |-> {}, spares |-> {}],
       [labour |-> {"RO No."}, spares |-> {"RO Number"}],
       [labour |-> {"Service Advisor"}, spares |-> {"Service Advisor"}],
       [labour |-> {"Labour Description"}, spares |-> {"Part Desc"}],
       [labour |-> {"Labour Basic Amount-DIS"}, spares |-> {"Final Qty"}],
       [labour |-> {"Labour Total Amount"}, spares |-> {"MRP (Per Qty)"}],
       [labour |-> {}, spares |-> {"NDP PRIC*Qty"}],
       [labour |-> {}, spares |-> {"Selling Price/Landed Cost (Total of Issued Qty)"}],
       [labour |-> {"Labour Basic Amount-DIS", "Labour Total Amount"},
        spares |-> {"Final Qty", "MRP (Per Qty)"}],
       [labour |-> {"RO No.", "Service Advisor"}, spares |-> {"RO Number", "Service Advisor"}] >>

\* The rows of a sheet: which sample record stands in each row.
Sheets == UNION {[1..n -> DOMAIN LabourRecords] : n \in 0..MaxRows}

\* Facet values a request may carry.
DivisionInputs == {None, "CITY"}
MonthInputs == {None, "Apr", "Oct"}
AdvisorInputs == {NoneText, <<>>, Ali, <<"n", "a", "n">>}

NoArgs == [division |-> None, month |-> None, advisor |-> NoneText]

\* No report is being computed step by step, and no dashboard is open.
NoJob == [pc |-> "none"]
NoUi == [tab |-> "none"]

\* No response kept yet.
NoCall == [op |-> "idle", args |-> NoArgs, filtered |-> EmptyDataFrame, result |-> <<>>]

\* load_data(): both files are read, sheet by sheet with the same rows
\* filled in, or neither is found and both frames are empty.
Init ==
    /\ \/ \E sheet \in Sheets, k \in DOMAIN MissingColumns :
            /\ labour_df = read_excel(LabourColumns, [i \in DOMAIN sheet |-> LabourRecords[sheet[i]]],
                                      MissingColumns[k].labour)
            /\ spares_df = read_excel(SparesColumns, [i \in DOMAIN sheet |-> SparesRecords[sheet[i]]],
                                      MissingColumns[k].spares)
       \/ labour_df = EmptyDataFrame /\ spares_df = EmptyDataFrame
    /\ op = "idle"
    /\ args = NoArgs
    /\ filtered = EmptyDataFrame
    /\ result = <<>>
    /\ earlier = NoCall
    /\ job = NoJob
    /\ ui = NoUi

----------------------------------------------------------------------------
(* Request handlers.  A handler runs when no request is being served; it   *)
(* leaves its return value in result and the value of its local frame      *)
(* filtered, after the facet predicates, in filtered.                      *)

\* x if x else None
OrNone(x) == IF Truthy(x) THEN x ELSE None
OrNoneText(x) == IF TruthyText(x) THEN x ELSE NoneText

Reply(name, division, month, advisor, f, r) ==
    /\ op = "idle"
    /\ op' = name
    /\ args' = [division |-> division, month |-> month, advisor |-> advisor]
    /\ filtered' = f
    /\ result' = r
    /\ UNCHANGED <<earlier, job, ui>>

\* A handler that only reads the loaded frames.
Serve(name, division, month, advisor, f, r) ==
    /\ Reply(name, division, month, advisor, f, r)
    /\ UNCHANGED <<labour_df, spares_df>>

\* A labour handler that groups: it sets the helper column on its local
\* frame, which it took as a copy of the loaded frame.
ServeGrouped(name, division, month, advisor, f, r) ==
    /\ Reply(name, division, month, advisor, f, r)
    /\ labour_df' = loaded_after_handler(labour_df, with_rowcount(f))
    /\ UNCHANGED spares_df

labour_filtered(df, division, month, advisor) ==
    IF empty(df) THEN df ELSE apply_filters(df, "RO No.", "Bill Date", division, month, advisor)

spares_filtered(df, division, month, advisor) ==
    IF empty(df) THEN df ELSE apply_filters(df, "RO Number", "Doc Date", division, month, advisor)

api_labour_divisions ==
    Serve("/api/labour/divisions", None, None, NoneText, EmptyDataFrame,
          get_labour_divisions(labour_df))

api_spares_divisions ==
    Serve("/api/spares/divisions", None, None, NoneText, EmptyDataFrame,
          get_spares_divisions(spares_df))

api_labour_months_all ==
    Serve("/api/labour/months", None, None, NoneText, EmptyDataFrame,
          get_labour_months_for_division(labour_df, None))

api_labour_months_div ==
    \E division \in DivisionInputs \ {None} :
        Serve("/api/labour/months/{division}", division, None, NoneText, EmptyDataFrame,
              get_labour_months_for_division(labour_df, division))

api_spares_months_all ==
    Serve("/api/spares/months", None, None, NoneText, EmptyDataFrame,
          get_spares_months_for_division(spares_df, None))

api_spares_months_div ==
    \E division \in DivisionInputs \ {None} :
        Serve("/api/spares/months/{division}", division, None, NoneText, EmptyDataFrame,
              get_spares_months_for_division(spares_df, division))

api_labour_advisors ==
    \E division \in DivisionInputs, month \in MonthInputs :
        Serve("/api/labour/advisors", division, month, NoneText,
              labour_filtered(labour_df, division, month, NoneText),
              get_labour_advisors_any(labour_df, division, month))

api_labour_advisors_old ==
    \E division \in DivisionInputs \ {None}, month \in MonthInputs \ {None} :
        Serve("/api/labour/advisors/{division}/{month}", division, month, NoneText,
              labour_filtered(labour_df, division, month, NoneText),
              get_labour_advisors_any(labour_df, division, month))

api_spares_advisors ==
    \E division \in DivisionInputs, month \in MonthInputs :
        Serve("/api/spares/advisors", division, month, NoneText,
              spares_filtered(spares_df, division, month, NoneText),
              get_spares_advisors_any(spares_df, division, month))

api_spares_advisors_old ==
    \E division \in DivisionInputs \ {None}, month \in MonthInputs \ {None} :
        Serve("/api/spares/advisors/{division}/{month}", division, month, NoneText,
              spares_filtered(spares_df, division, month, NoneText),
              get_spares_advisors_any(spares_df, division, month))

api_labour_summary ==
    \E division \in DivisionInputs, month \in MonthInputs, advisor \in AdvisorInputs :
        Serve("/api/labour/summary", division, month, advisor,
              labour_filtered(labour_df, OrNone(division), OrNone(month), OrNoneText(advisor)),
              get_labour_summary(labour_df, OrNone(division), OrNone(month), OrNoneText(advisor)))

api_labour_data ==
    \E division \in DivisionInputs, month \in MonthInputs, advisor \in AdvisorInputs :
        ServeGrouped("/api/labour/data", division, month, advisor,
              labour_filtered(labour_df, OrNone(division), OrNone(month), OrNoneText(advisor)),
              [rows |-> get_labour_data(labour_df, OrNone(division), OrNone(month), OrNoneText(advisor))])

api_spares_summary ==
    \E division \in DivisionInputs, month \in MonthInputs, advisor \in AdvisorInputs :
        Serve("/api/spares/summary", division, month, advisor,
              spares_filtered(spares_df, OrNone(division), OrNone(month), OrNoneText(advisor)),
              get_spares_summary(spares_df, OrNone(division), OrNone(month), OrNoneText(advisor)))

api_spares_data ==
    \E division \in DivisionInputs, month \in MonthInputs, advisor \in AdvisorInputs :
        Serve("/api/spares/data", division, month, advisor,
              spares_filtered(spares_df, OrNone(division), OrNone(month), OrNoneText(advisor)),
              [rows |-> get_spares_data(spares_df, OrNone(division), OrNone(month), OrNoneText(advisor))])

api_labour_export ==
    \E division \in DivisionInputs, month \in MonthInputs, advisor \in AdvisorInputs :
        ServeGrouped("/api/labour/export", division, month, advisor,
              labour_filtered(labour_df, division, month, advisor),
              export_labour_data(labour_df, division, month, advisor))

api_spares_export ==
    \E division \in DivisionInputs, month \in MonthInputs, advisor \in AdvisorInputs :
        Serve("/api/spares/export", division, month, advisor,
              spares_filtered(spares_df, division, month, advisor),
              export_spares_data(spares_df, division, month, advisor))

\* The response is sent and the server waits for the next request.
respond ==
    /\ op # "idle"
    /\ op' = "idle"
    /\ args' = NoArgs
    /\ filtered' = EmptyDataFrame
    /\ result' = <<>>
    /\ UNCHANGED <<labour_df, spares_df, earlier, job, ui>>

Next ==
    \/ api_labour_divisions
    \/ api_spares_divisions
    \/ api_labour_months_all
    \/ api_labour_months_div
    \/ api_spares_months_all
    \/ api_spares_months_div
    \/ api_labour_advisors
    \/ api_labour_advisors_old
    \/ api_spares_advisors
    \/ api_spares_advisors_old
    \/ api_labour_summary
    \/ api_labour_data
    \/ api_spares_summary
    \/ api_spares_data
    \/ api_labour_export
    \/ api_spares_export
    \/ respond

Spec == Init /\ [][Next]_vars

----------------------------------------------------------------------------
(* The same server watched by a client that keeps one response it got and  *)
(* goes on sending requests, the same one again among them.                *)

\* The records the sheets of this run are filled with.
RepeatRecords == {1, 4}

InitRepeat ==
    /\ \E sheet \in [1..MaxRows -> RepeatRecords], k \in {1, 2} :
          /\ labour_df = read_excel(LabourColumns, [i \in DOMAIN sheet |-> LabourRecords[sheet[i]]],
                                    MissingColumns[k].labour)
          /\ spares_df = read_excel(SparesColumns, [i \in DOMAIN sheet |-> SparesRecords[sheet[i]]],
                                    MissingColumns[k].spares)
    /\ op = "idle"
    /\ args = NoArgs
    /\ filtered = EmptyDataFrame
    /\ result = <<>>
    /\ earlier = NoCall
    /\ job = NoJob
    /\ ui = NoUi

\* The client keeps the response being sent, if it has kept none so far.
remember ==
    /\ op # "idle"
    /\ earlier = NoCall
    /\ earlier' = [op |-> op, args |-> args, filtered |-> filtered, result |-> result]
    /\ UNCHANGED <<labour_df, spares_df, op, args, filtered, result, job, ui>>

NextRepeat == Next \/ remember

SpecRepeat == InitRepeat /\ [][NextRepeat]_vars

----------------------------------------------------------------------------
(* DivisionResolver on its own: the identifier is drawn at the start and   *)
(* resolve applies get_division_from_ro to its string form, as every       *)
(* caller does.                                                            *)

PadChars == {"R", "5"}
FifthChars == {"A", "B", "C", "D", "G", "L", "M", "R", "U",
               "a", "b", "c", "d", "g", "l", "m", "r", "u",
               "Z", "z", "5", " "}

Identifiers ==
    {Null}
    \cup UNION {[1..n -> PadChars] : n \in 0..4}
    \cup {p \o <<c>> \o q : p \in [1..4 -> PadChars], c \in FifthChars,
                            q \in UNION {[1..n -> PadChars] : n \in 0..MaxSuffix}}

InitResolve ==
    /\ labour_df = EmptyDataFrame
    /\ spares_df = EmptyDataFrame
    /\ op = "idle"
    /\ args \in [ro_no : Identifiers]
    /\ filtered = EmptyDataFrame
    /\ result = <<>>
    /\ earlier = NoCall
    /\ job = NoJob
    /\ ui = NoUi

resolve ==
    /\ op = "idle"
    /\ op' = "get_division_from_ro"
    /\ result' = get_division_from_ro(str(args.ro_no))
    /\ UNCHANGED <<labour_df, spares_df, args, filtered, earlier, job, ui>>

NextResolve == resolve

SpecResolve == InitResolve /\ [][NextResolve]_vars

----------------------------------------------------------------------------
(* The labour report computed statement by statement while the loader      *)
(* replaces the process-wide frame.  job holds the locals of the handler   *)
(* and, for the properties, the frame it read first.  The three reads of   *)
(* labour_df inside get_labour_divisions() are taken together.             *)

SwapRecords == {1, 3}

\* The frames the loader may put in place of labour_df.
SwapFrames ==
    {read_excel(LabourColumns, [i \in DOMAIN sheet |-> LabourRecords[sheet[i]]], {}) :
        sheet \in UNION {[1..n -> SwapRecords] : n \in 1..2}}

InitSwap ==
    /\ labour_df \in SwapFrames
    /\ spares_df = EmptyDataFrame
    /\ op = "idle"
    /\ args = NoArgs
    /\ filtered = EmptyDataFrame
    /\ result = <<>>
    /\ earlier = NoCall
    /\ job = NoJob
    /\ ui = NoUi

\* The loader assigns a newly loaded frame to the module-level name.
swap ==
    /\ \E df \in SwapFrames \ {labour_df} : labour_df' = df
    /\ UNCHANGED <<spares_df, op, args, filtered, result, earlier, job, ui>>

\* The handler from its first read of labour_df to the month-wise summary,
\* or to the workbook of four empty sheets.
export_read ==
    /\ op = "idle"
    /\ job = NoJob
    /\ \E division \in DivisionInputs, month \in MonthInputs, advisor \in AdvisorInputs :
        LET f == IF ~empty(labour_df)
                 THEN apply_filters(labour_df, "RO No.", "Bill Date", division, month, advisor)
                 ELSE labour_df
        IN /\ op' = "/api/labour/export"
           /\ args' = [division |-> division, month |-> month, advisor |-> advisor]
           /\ filtered' = f
           /\ IF empty(f)
              THEN /\ result' = [details |-> EmptyDataFrame, month_summary |-> <<>>,
                                 div_summary |-> <<>>, dimension |-> <<>>]
                   /\ job' = [pc |-> "done", snapshot |-> labour_df]
              ELSE /\ result' = <<>>
                   /\ job' = [pc |-> "divisions", snapshot |-> labour_df,
                              details |-> labour_details(f),
                              month_summary |-> labour_month_summary(f)]
    /\ UNCHANGED <<labour_df, spares_df, earlier, ui>>

\* for div in get_labour_divisions(): the list is taken from labour_df.
export_list_divisions ==
    /\ job.pc = "divisions"
    /\ job' = [pc |-> "division", snapshot |-> job.snapshot, details |-> job.details,
               month_summary |-> job.month_summary,
               divs |-> get_labour_divisions(labour_df), i |-> 1, acc |-> NoDivisionRows]
    /\ UNCHANGED <<labour_df, spares_df, op, args, filtered, result, earlier, ui>>

\* One iteration of the loop: df_div = labour_df.copy() and its totals.
export_division ==
    /\ job.pc = "division"
    /\ job.i <= Len(job.divs)
    /\ job' = [job EXCEPT !.i = job.i + 1,
                          !.acc = labour_div_loop(labour_df, <<job.divs[job.i]>>, 1, job.acc)]
    /\ UNCHANGED <<labour_df, spares_df, op, args, filtered, result, earlier, ui>>

\* After the loop: the Grand Total row, the description sheet, the workbook.
export_write ==
    /\ job.pc = "division"
    /\ job.i > Len(job.divs)
    /\ result' = [details |-> job.details,
                  month_summary |-> job.month_summary,
                  div_summary |-> labour_div_totals(job.acc),
                  dimension |-> labour_desc_sheet(filtered)]
    /\ job' = [pc |-> "done", snapshot |-> job.snapshot]
    /\ UNCHANGED <<labour_df, spares_df, op, args, filtered, earlier, ui>>

\* The workbook is sent and the server waits for the next request.
export_respond ==
    /\ job.pc = "done"
    /\ op' = "idle"
    /\ args' = NoArgs
    /\ filtered' = EmptyDataFrame
    /\ result' = <<>>
    /\ job' = NoJob
    /\ UNCHANGED <<labour_df, spares_df, earlier, ui>>

NextSwap ==
    \/ swap
    \/ export_read
    \/ export_list_divisions
    \/ export_division
    \/ export_write
    \/ export_respond

SpecSwap == InitSwap /\ [][NextSwap]_vars

----------------------------------------------------------------------------
(* The labour operations over a sheet with a corrupt record: an amount     *)
(* cell holding text that is no number.  Series.sum() over a column with   *)
(* such a cell, or float() of what it returns, raises.                     *)

\* Text in an amount cell.
Corrupt == 0 - 2

\* The rows with a date: those some month row sums.
Dated_rows(rows) == LET Test(r) == r["Bill Date"] # NaT IN SelectSeq(rows, Test)

CorruptRecords ==
    << LabourRecords[1], LabourRecords[3], LabourRecords[4],
       LabourRecord(ROC, Ali, Oil, Corrupt, 118, 4) >>

InitCorrupt ==
    /\ \E sheet \in UNION {[1..n -> DOMAIN CorruptRecords] : n \in 1..2} :
          labour_df = read_excel(LabourColumns, [i \in DOMAIN sheet |-> CorruptRecords[sheet[i]]], {})
    /\ spares_df = EmptyDataFrame
    /\ op = "idle"
    /\ args = NoArgs
    /\ filtered = EmptyDataFrame
    /\ result = <<>>
    /\ earlier = NoCall
    /\ job = NoJob
    /\ ui = NoUi

\* float(df[col].sum()) raises over these rows.
SumRaises(rows, cols) ==
    \E i \in DOMAIN rows : \E c \in cols \cap DOMAIN rows[i] : rows[i][c] = Corrupt

\* The exception as it leaves a function without a handler.
Raised == [raised |-> "Exception"]

\* get_labour_summary has no try: the sums of lines 231 and 232 raise.
summary_raises(f) == ~empty(f) /\ SumRaises(f.rows, {dis_col, tot_col})

\* get_labour_data: the aggregation of the groups, inside the try.
data_raises(f) ==
    /\ ~empty(f)
    /\ HasCol(f, "Labour Description")
    /\ LET Keyed(r) == r["Labour Description"] # Null
       IN SumRaises(SelectSeq(f.rows, Keyed), {dis_col, tot_col})

\* export_labour_data: the sums of the month rows over the filtered frame,
\* of the division rows over the loaded frame, and of the description
\* groups, all inside the try.
export_raises(df, f) ==
    /\ ~empty(f)
    /\ \/ SumRaises(Dated_rows(f.rows), {dis_col, tot_col})
       \/ LET Listed(r) == HasCol(df, "RO No.")
                           /\ get_division_from_ro(str(r["RO No."])) # "Unknown"
          IN SumRaises(SelectSeq(df.rows, Listed), {dis_col, tot_col})
       \/ data_raises(f)

summary_of_corrupt ==
    \E division \in DivisionInputs, month \in MonthInputs, advisor \in AdvisorInputs :
        LET f == labour_filtered(labour_df, OrNone(division), OrNone(month), OrNoneText(advisor))
        IN Serve("/api/labour/summary", division, month, advisor, f,
                 IF summary_raises(f) THEN Raised
                 ELSE get_labour_summary(labour_df, OrNone(division), OrNone(month), OrNoneText(advisor)))

data_of_corrupt ==
    \E division \in DivisionInputs, month \in MonthInputs, advisor \in AdvisorInputs :
        LET f == labour_filtered(labour_df, OrNone(division), OrNone(month), OrNoneText(advisor))
        IN ServeGrouped("/api/labour/data", division, month, advisor, f,
                 [rows |-> IF data_raises(f) THEN <<>>
                           ELSE get_labour_data(labour_df, OrNone(division), OrNone(month),
                                                OrNoneText(advisor))])

export_of_corrupt ==
    \E division \in DivisionInputs, month \in MonthInputs, advisor \in AdvisorInputs :
        LET f == labour_filtered(labour_df, division, month, advisor)
        IN ServeGrouped("/api/labour/export", division, month, advisor, f,
                 IF export_raises(labour_df, f) THEN [error |-> "str(e)"]
                 ELSE export_labour_data(labour_df, division, month, advisor))

NextCorrupt ==
    \/ summary_of_corrupt
    \/ data_of_corrupt
    \/ export_of_corrupt
    \/ respond

SpecCorrupt == InitCorrupt /\ [][NextCorrupt]_vars

----------------------------------------------------------------------------
(* The dashboard script.  ui holds currentTab, the values and the options  *)
(* of the three selects (the "All ..." option, value "", is always there   *)
(* and is left out of the option sets), what the summary section and the   *)
(* table show, and the async functions waiting for a response.  A step is  *)
(* what the script runs without yielding: an event handler up to the       *)
(* first await of every function it starts, or the continuation of one     *)
(* function from a response to its next await.  The server answers from    *)
(* the loaded frames, which do not change.                                 *)

\* The changes the user makes while functions of the script are waiting,
\* before letting every request be answered.
MaxOverlap == 1

Tabs == {"labour", "spares"}

UiRecords == <<2, 5>>

\* A select shows "" for "no constraint"; the query string leaves it out.
FacetOf(v) == IF v = "" THEN None ELSE v
FacetOfText(v) == IF v = <<>> THEN NoneText ELSE v

\* fetch of the four endpoints a tab has.
fetch_divisions(tab) ==
    IF tab = "labour" THEN get_labour_divisions(labour_df) ELSE get_spares_divisions(spares_df)

fetch_months(tab, division) ==
    IF tab = "labour" THEN get_labour_months_for_division(labour_df, FacetOf(division))
    ELSE get_spares_months_for_division(spares_df, FacetOf(division))

fetch_advisors(tab, division, month) ==
    IF tab = "labour" THEN get_labour_advisors_any(labour_df, FacetOf(division), FacetOf(month))
    ELSE get_spares_advisors_any(spares_df, FacetOf(division), FacetOf(month))

fetch_summary(tab, division, month, advisor) ==
    IF tab = "labour"
    THEN get_labour_summary(labour_df, FacetOf(division), FacetOf(month), FacetOfText(advisor))
    ELSE get_spares_summary(spares_df, FacetOf(division), FacetOf(month), FacetOfText(advisor))

fetch_data(tab, division, month, advisor) ==
    IF tab = "labour"
    THEN get_labour_data(labour_df, FacetOf(division), FacetOf(month), FacetOfText(advisor))
    ELSE get_spares_data(spares_df, FacetOf(division), FacetOf(month), FacetOfText(advisor))

\* An async function waiting for the response of the request it sent to
\* the endpoint of tab: at pc "divisions" loadDivisions, at "months"
\* loadMonths, at "advisors" loadAdvisors, at "summary" and "rows"
\* loadData.  current is the value of the select read before its options
\* were cleared; then names the change handler ("division", "month") that
\* awaits the function and calls loadData after it, "none" when no handler
\* does; alone tells, of the
\* functions a change of division started, that no other function has been
\* waiting since.  ui.tasks is the bag of the functions waiting.
Waiting(pc, tab, division, month, advisor, current, then, summary, alone) ==
    [pc |-> pc, tab |-> tab, division |-> division, month |-> month, advisor |-> advisor,
     current |-> current, then |-> then, summary |-> summary, alone |-> alone]

\* The functions waiting are no longer alone once an event starts another.
Joined(tasks) ==
    LET NotAlone(t) == [t EXCEPT !.alone = FALSE]
        Alone(t) == [t EXCEPT !.alone = TRUE]
        keys == {NotAlone(t) : t \in BagToSet(tasks)}
    IN [k \in keys |-> CopiesIn(k, tasks) + CopiesIn(Alone(k), tasks)]

\* select.value = '' whatever the select offers.
Restored_always_none(current, options, none) == none

\* select.value = current when the select has such an option, "" otherwise.
Restored(current, options, none) == IF current \in options \cup {none} THEN current ELSE none

\* loadDivisions() up to its fetch.
loadDivisions(tab) == Waiting("divisions", tab, "", "", <<>>, "", "none", <<>>, FALSE)

\* loadMonths(division) up to its fetch, called by refreshDependentDropdowns.
loadMonths(tab, division, current, then, alone) ==
    Waiting("months", tab, division, "", <<>>, current, then, <<>>, alone)

\* loadAdvisors(division, month) up to its fetch.
loadAdvisors(tab, division, month, current, then, alone) ==
    Waiting("advisors", tab, division, month, <<>>, current, then, <<>>, alone)

\* loadData() up to the fetch of the summary.
loadData(tab, division, month, advisor, alone) ==
    Waiting("summary", tab, division, month, advisor, "", "none", <<>>, alone)

\* The summary section and the table as loadData fills them: in the layout
\* of tab, from the summary and the rows it received.
Rendered(tab, summary, rows) ==
    IF rows = <<>> THEN [cards |-> "none", table |-> "empty"]
    ELSE [cards |-> [layout |-> tab, summary |-> summary],
          table |-> [layout |-> tab, rows |-> rows]]

\* The labour file was found and the spares file was not.  The page as
\* served: labour tab, selects with their "All ..." option only, an empty
\* summary section and the table loading; the script has made its three
\* calls, each waiting for its first response.
InitUI ==
    /\ labour_df = read_excel(LabourColumns, [i \in DOMAIN UiRecords |-> LabourRecords[UiRecords[i]]], {})
    /\ spares_df = EmptyDataFrame
    /\ op = "idle"
    /\ args = NoArgs
    /\ filtered = EmptyDataFrame
    /\ result = <<>>
    /\ earlier = NoCall
    /\ job = NoJob
    /\ ui = [tab |-> "labour", division |-> "", month |-> "", advisor |-> <<>>,
             divisions |-> {}, months |-> {}, advisors |-> {},
             cards |-> "none", table |-> "loading", changes |-> 0, loaded |-> FALSE,
             tasks |-> SetToBag({loadDivisions("labour"),
                                 loadMonths("labour", "", "", "none", FALSE),
                                 loadData("labour", "", "", <<>>, FALSE)})]

\* What the server holds; the script does not touch it.
server == <<labour_df, spares_df, op, args, filtered, result, earlier, job>>

\* The functions waiting after an event started those in started.
RECURSIVE Started(_)
Started(started) ==
    IF started = <<>> THEN Joined(ui.tasks)
    ELSE Started(Tail(started)) (+) SetToBag({Head(started)})

\* The functions waiting once t went on as next, or returned.
Continued(t, next) == (ui.tasks (-) SetToBag({t})) (+) SetToBag({next})
Returned(t) == ui.tasks (-) SetToBag({t})

\* The changes that overlap, once t returned: none when it was the last.
StillOverlapping(t) == IF Returned(t) = EmptyBag THEN 0 ELSE ui.changes

Quiet == ui.tasks = EmptyBag

\* The user makes a change when nothing is waiting, the first one once the
\* page has loaded, or MaxOverlap changes on top of it.
MayChange == Quiet \/ (ui.loaded /\ ui.changes < MaxOverlap)

\* The changes made since something has been waiting.
Overlapping == IF Quiet THEN 0 ELSE ui.changes + 1

\* The user picks another division: the handler awaits
\* refreshDependentDropdowns(), which is in loadMonths when it yields.
change_division ==
    /\ ui # NoUi /\ MayChange
    /\ \E d \in (ui.divisions \cup {""}) \ {ui.division} :
          ui' = [ui EXCEPT !.changes = Overlapping, !.loaded = TRUE, !.division = d, !.months = {}, !.month = "",
                           !.tasks = Started(<<loadMonths(ui.tab, d, ui.month, "division", Quiet)>>)]
    /\ UNCHANGED server

\* The user picks another month: the handler awaits loadAdvisors.
change_month ==
    /\ ui # NoUi /\ MayChange
    /\ \E m \in (ui.months \cup {""}) \ {ui.month} :
          ui' = [ui EXCEPT !.changes = Overlapping, !.loaded = TRUE, !.month = m, !.advisors = {}, !.advisor = <<>>,
                           !.tasks = Started(<<loadAdvisors(ui.tab, ui.division, m, ui.advisor,
                                                            "month", FALSE)>>)]
    /\ UNCHANGED server

\* The user picks another advisor: the handler calls loadData.
change_advisor ==
    /\ ui # NoUi /\ MayChange
    /\ \E a \in (ui.advisors \cup {<<>>}) \ {ui.advisor} :
          ui' = [ui EXCEPT !.changes = Overlapping, !.loaded = TRUE, !.advisor = a, !.table = "loading",
                           !.tasks = Started(<<loadData(ui.tab, ui.division, ui.month, a, FALSE)>>)]
    /\ UNCHANGED server

\* switchTab(tab): the three selects are set to "", then loadDivisions,
\* refreshDependentDropdowns and loadData are called, none awaited.
switchTab ==
    /\ ui # NoUi /\ MayChange
    /\ \E tab \in Tabs :
          ui' = [ui EXCEPT !.changes = Overlapping, !.loaded = TRUE, !.tab = tab, !.division = "", !.month = "", !.advisor = <<>>,
                           !.months = {}, !.table = "loading",
                           !.tasks = Started(<<loadDivisions(tab),
                                               loadMonths(tab, "", "", "none", FALSE),
                                               loadData(tab, "", "", <<>>, FALSE)>>)]
    /\ UNCHANGED server

clearAllFilters ==
    /\ ui # NoUi /\ MayChange
    /\ ui' = [ui EXCEPT !.changes = Overlapping, !.loaded = TRUE, !.division = "", !.month = "", !.advisor = <<>>,
                        !.months = {}, !.table = "loading",
                        !.tasks = Started(<<loadMonths(ui.tab, "", "", "none", FALSE),
                                            loadData(ui.tab, "", "", <<>>, FALSE)>>)]
    /\ UNCHANGED server

\* loadDivisions after its response: the options are replaced and the
\* value read just before is put back.
divisions_response ==
    /\ ui # NoUi
    /\ \E t \in BagToSet(ui.tasks) :
          LET options == Range(fetch_divisions(t.tab))
          IN /\ t.pc = "divisions"
             /\ ui' = [ui EXCEPT !.divisions = options,
                                 !.division = Restored(ui.division, options, ""),
                                 !.tasks = Returned(t),
                                 !.changes = StillOverlapping(t)]
    /\ UNCHANGED server

\* The options of the month select after the response: loadMonths appends
\* to what the select holds by then.
months_after_response(old, response) == old \cup Range(response)

\* loadMonths after its response, and refreshDependentDropdowns from there
\* into loadAdvisors, up to its fetch.
months_response ==
    /\ ui # NoUi
    /\ \E t \in BagToSet(ui.tasks) :
          LET options == months_after_response(ui.months, fetch_months(t.tab, t.division))
              finalMonth == Restored(t.current, options, "")
          IN /\ t.pc = "months"
             /\ ui' = [ui EXCEPT !.months = options, !.month = finalMonth,
                                 !.advisors = {}, !.advisor = <<>>,
                                 !.tasks = Continued(t, loadAdvisors(ui.tab, t.division, finalMonth,
                                                                     ui.advisor, t.then, t.alone))]
    /\ UNCHANGED server

\* loadAdvisors after its response, and the change handler from there into
\* loadData, up to the fetch of the summary.
advisors_response ==
    /\ ui # NoUi
    /\ \E t \in BagToSet(ui.tasks) :
          LET options == ui.advisors \cup Range(fetch_advisors(t.tab, t.division, t.month))
              advisor == Restored(t.current, options, <<>>)
          IN /\ t.pc = "advisors"
             /\ IF t.then # "none"
                THEN ui' = [ui EXCEPT !.advisors = options, !.advisor = advisor, !.table = "loading",
                                      !.tasks = Continued(t, loadData(ui.tab, ui.division, ui.month,
                                                                      advisor, FALSE))]
                ELSE ui' = [ui EXCEPT !.advisors = options, !.advisor = advisor, !.tasks = Returned(t),
                                 !.changes = StillOverlapping(t)]
    /\ UNCHANGED server

\* loadData after the summary: the rows are asked of the endpoint of the
\* tab that is current by now, with the same parameters.
summary_response ==
    /\ ui # NoUi
    /\ \E t \in BagToSet(ui.tasks) :
          /\ t.pc = "summary"
          /\ ui' = [ui EXCEPT !.tasks = Continued(t,
                          [t EXCEPT !.pc = "rows", !.tab = ui.tab,
                                    !.summary = fetch_summary(t.tab, t.division, t.month, t.advisor)])]
    /\ UNCHANGED server

\* loadData after the rows: it renders.
rows_response ==
    /\ ui # NoUi
    /\ \E t \in BagToSet(ui.tasks) :
          LET shown == Rendered(ui.tab, t.summary, fetch_data(t.tab, t.division, t.month, t.advisor))
          IN /\ t.pc = "rows"
             /\ ui' = [ui EXCEPT !.cards = shown.cards, !.table = shown.table, !.tasks = Returned(t),
                                 !.changes = StillOverlapping(t)]
    /\ UNCHANGED server

NextUI ==
    \/ change_division
    \/ change_month
    \/ change_advisor
    \/ switchTab
    \/ clearAllFilters
    \/ divisions_response
    \/ months_response
    \/ advisors_response
    \/ summary_response
    \/ rows_response

SpecUI == InitUI /\ [][NextUI]_vars

\* The dashboard kept on the tab it opens with.
NextOneTab ==
    \/ change_division
    \/ change_month
    \/ change_advisor
    \/ clearAllFilters
    \/ divisions_response
    \/ months_response
    \/ advisors_response
    \/ summary_response
    \/ rows_response

SpecOneTab == InitUI /\ [][NextOneTab]_vars

----------------------------------------------------------------------------
(* Vocabulary of the properties: the request being served and the records  *)
(* its facet selection stands for.                                         *)

LabourOps == {"/api/labour/divisions", "/api/labour/months", "/api/labour/months/{division}",
              "/api/labour/advisors", "/api/labour/advisors/{division}/{month}",
              "/api/labour/summary", "/api/labour/data", "/api/labour/export"}

OnLabour == op \in LabourOps
Dataset == IF OnLabour THEN labour_df ELSE spares_df
IdCol == IF OnLabour THEN "RO No." ELSE "RO Number"
DateCol == IF OnLabour THEN "Bill Date" ELSE "Doc Date"

IsSummary == op \in {"/api/labour/summary", "/api/spares/summary"}
IsData == op \in {"/api/labour/data", "/api/spares/data"}
IsExport == op \in {"/api/labour/export", "/api/spares/export"}
IsMonths == op \in {"/api/labour/months", "/api/labour/months/{division}",
                    "/api/spares/months", "/api/spares/months/{division}"}
IsAdvisors == op \in {"/api/labour/advisors", "/api/labour/advisors/{division}/{month}",
                      "/api/spares/advisors", "/api/spares/advisors/{division}/{month}"}
IsDivisions == op \in {"/api/labour/divisions", "/api/spares/divisions"}

\* A facet is unconstrained when it carries no value; its predicate is also
\* skipped when the column it reads is absent.
DivisionFree == ~Truthy(args.division) \/ ~HasCol(Dataset, IdCol)
MonthFree == ~Truthy(args.month) \/ ~HasCol(Dataset, DateCol)
AdvisorFree == ~TruthyText(args.advisor) \/ ~HasCol(Dataset, "Service Advisor")

InDivision(r) == DivisionFree \/ get_division_from_ro(str(r[IdCol])) = args.division
InMonth(r) == MonthFree \/ get_month_name(r[DateCol]) = args.month
HasAdvisor(r) == AdvisorFree \/ strip(str(r["Service Advisor"])) = args.advisor

Survives(r) == InDivision(r) /\ InMonth(r) /\ HasAdvisor(r)

\* The records the facet selection of the request stands for.
Survivors == SelectSeq(Dataset.rows, Survives)

\* The sum of Val over the rows, each row once.
SumOver(rows, Val(_)) ==
    LET S[i \in 0..Len(rows)] == IF i = 0 THEN 0 ELSE S[i - 1] + Val(rows[i])
    IN S[Len(rows)]

\* The number in column col of row r: 0 when the column is absent or the
\* cell is missing.
Number(r, col) == IF col \in DOMAIN r /\ r[col] # NaN THEN r[col] ELSE 0

----------------------------------------------------------------------------
(* C1: summary, rows and report all work on exactly the records that       *)
(* satisfy the division, the month and the advisor predicate together      *)
(* (advisor compared as the trimmed text of the field), and applying the   *)
(* three predicates in any other order selects the same records.           *)

----------------------------------------------------------------------------
(* C2: summary returns a count equal to the number of records that survive *)
(* the filter and, for each summed field, the sum of the field over        *)
(* exactly those records; an absent column gives 0 and an empty dataset or *)
(* empty filtered view gives all-zero fields with count 0.                 *)

QtyTimesMrp(r) ==
    IF qty_col \in DOMAIN r /\ mrp_col \in DOMAIN r /\ r[qty_col] # NaN /\ r[mrp_col] # NaN
    THEN r[qty_col] * r[mrp_col] ELSE 0

Dis(r) == Number(r, "Labour Basic Amount-DIS")
Tot(r) == Number(r, "Labour Total Amount")
Ndp(r) == Number(r, "NDP PRIC*Qty")
Sell(r) == Number(r, "Selling Price/Landed Cost (Total of Issued Qty)")
Qty(r) == Number(r, "Final Qty")

SummedFieldsRight ==
    IF OnLabour
    THEN /\ result.total_dis = SumOver(Survivors, Dis)
         /\ result.total_amount = SumOver(Survivors, Tot)
    ELSE /\ result.total_ndp = SumOver(Survivors, Ndp)
         /\ result.total_selling = SumOver(Survivors, Sell)
         /\ result.total_mrp = SumOver(Survivors, QtyTimesMrp)

\* The claim as stated: every summary carries the count.
C2_SummaryCountAndSums ==
    IsSummary =>
        /\ "total_items" \in DOMAIN result
        /\ result.total_items = Len(Survivors)
        /\ SummedFieldsRight

\* As amended: the labour summary carries the count, the spares summary
\* carries the three sums only.
C2_SummaryTotals ==
    IsSummary =>
        /\ IF OnLabour
           THEN /\ DOMAIN result = {"total_items", "total_dis", "total_amount"}
                /\ result.total_items = Len(Survivors)
           ELSE DOMAIN result = {"total_ndp", "total_selling", "total_mrp"}
        /\ SummedFieldsRight

C2_Witness ==
    /\ op = "/api/labour/summary"
    /\ Len(Survivors) >= 1
    /\ Len(Survivors) < Len(labour_df.rows)
    /\ result.total_items = Len(Survivors)
    /\ result.total_dis > 0
    /\ ~HasCol(labour_df, "Labour Total Amount")
    /\ result.total_amount = 0

----------------------------------------------------------------------------
(* C3: resolve is total; an identifier shorter than 5 characters resolves  *)
(* to Unknown, a longer one to the code of its 5th character, the same     *)
(* for the lower-case and the upper-case letter, and to Unknown when the   *)
(* character has no code.                                                  *)

UpperLetters == <<"A", "B", "C", "D", "G", "L", "M", "R", "U">>
LowerLetters == <<"a", "b", "c", "d", "g", "l", "m", "r", "u">>
Codes == <<"HO", "AMT", "CITY", "YAT", "WAG", "SHI", "CHA", "KOL", "CHI">>

C3_ResolveTotal ==
    op = "get_division_from_ro" =>
        LET s == IF args.ro_no = Null THEN <<"n", "a", "n">> ELSE args.ro_no
        IN /\ result \in Range(Codes) \cup {"Unknown"}
           /\ Len(s) < 5 => result = "Unknown"
           /\ Len(s) >= 5 =>
                /\ \A i \in DOMAIN Codes : s[5] \in {UpperLetters[i], LowerLetters[i]} => result = Codes[i]
                /\ s[5] \notin Range(UpperLetters) \cup Range(LowerLetters) => result = "Unknown"

C3_Witness ==
    /\ op = "get_division_from_ro"
    /\ args.ro_no # Null
    /\ Len(args.ro_no) >= 5
    /\ args.ro_no[5] = "c"
    /\ result = "CITY"

----------------------------------------------------------------------------
(* C4: listDivisions never contains Unknown, yet a record whose division   *)
(* resolves to Unknown is still among the records summary counts and sums  *)
(* when no division constraint is given.                                   *)

ResolvesToUnknown(r) == HasCol(Dataset, IdCol) /\ get_division_from_ro(str(r[IdCol])) = "Unknown"

PassesMonthAndAdvisor(r) == InMonth(r) /\ HasAdvisor(r)

C4_UnknownCounted ==
    /\ IsDivisions => "Unknown" \notin Range(result)
    /\ (IsSummary /\ ~Truthy(args.division)) =>
          LET counted == SelectSeq(Dataset.rows, PassesMonthAndAdvisor)
          IN /\ \A i \in DOMAIN Dataset.rows :
                   (ResolvesToUnknown(Dataset.rows[i]) /\ PassesMonthAndAdvisor(Dataset.rows[i]))
                       => Dataset.rows[i] \in Range(filtered.rows)
             /\ filtered.rows = counted
             /\ OnLabour => /\ result.total_items = Len(counted)
                            /\ result.total_dis = SumOver(counted, Dis)
                            /\ result.total_amount = SumOver(counted, Tot)
             /\ ~OnLabour => /\ result.total_ndp = SumOver(counted, Ndp)
                             /\ result.total_selling = SumOver(counted, Sell)
                             /\ result.total_mrp = SumOver(counted, QtyTimesMrp)

C4_Witness ==
    /\ op = "/api/labour/summary"
    /\ ~Truthy(args.division)
    /\ \E i \in DOMAIN labour_df.rows : ResolvesToUnknown(labour_df.rows[i])
    /\ \E i \in DOMAIN labour_df.rows : ~ResolvesToUnknown(labour_df.rows[i])
    /\ get_labour_divisions(labour_df) # <<>>
    /\ result.total_items = Len(labour_df.rows)

----------------------------------------------------------------------------
(* C5: listMonths returns exactly the distinct fiscal months of the        *)
(* non-null dates of the records in the division (all records when no      *)
(* division is given), as a subsequence of the cycle Apr .. Mar.           *)

FiscalCycle == <<"Apr", "May", "Jun", "Jul", "Aug", "Sep", "Oct", "Nov", "Dec", "Jan", "Feb", "Mar">>

InCycleOrder(months) == LET Test(m) == m \in months IN SelectSeq(FiscalCycle, Test)

MonthsOf(rows) == {get_month_name(rows[i][DateCol]) : i \in DOMAIN rows} \ {""}

C5_MonthsListing ==
    IsMonths => result = InCycleOrder(MonthsOf(SelectSeq(Dataset.rows, InDivision)))

----------------------------------------------------------------------------
(* C6: listAdvisors returns the distinct trimmed non-empty advisor values  *)
(* of the records satisfying the division and month predicates, without    *)
(* duplicates and in ascending lexical order.                              *)

InDivisionAndMonth(r) == InDivision(r) /\ InMonth(r)

AdvisorValues(rows) ==
    {strip(rows[i]["Service Advisor"]) :
        i \in {j \in DOMAIN rows : "Service Advisor" \in DOMAIN rows[j]
                                   /\ rows[j]["Service Advisor"] # Null}} \ {<<>>}

C6_AdvisorsListing ==
    IsAdvisors =>
        /\ Range(result) = AdvisorValues(SelectSeq(Dataset.rows, InDivisionAndMonth))
        /\ \A i \in 1..(Len(result) - 1) : StrLess(result[i], result[i + 1])

C6_Witness ==
    /\ IsAdvisors
    /\ ~DivisionFree
    /\ result = <<Ali>>
    /\ \E i, j \in DOMAIN Dataset.rows :
          /\ Dataset.rows[i]["Service Advisor"] = Ali
          /\ Dataset.rows[j]["Service Advisor"] = AliPadded

----------------------------------------------------------------------------
(* C7: when the column a facet predicate reads is absent, the predicate is *)
(* skipped: the operation returns what it returns with that facet          *)
(* unconstrained, not an empty result on account of the absent column.     *)

C7_AbsentColumnSkipped ==
    LET d == args.division
        m == args.month
        a == args.advisor
        NoId == ~HasCol(Dataset, IdCol)
        NoAdvisor == ~HasCol(Dataset, "Service Advisor")
    IN /\ (IsMonths /\ NoId) => result = InCycleOrder(MonthsOf(Dataset.rows))
       /\ (IsAdvisors /\ NoId) =>
             result = IF OnLabour THEN get_labour_advisors_any(labour_df, None, m)
                                  ELSE get_spares_advisors_any(spares_df, None, m)
       /\ (IsSummary /\ NoId) =>
             result = IF OnLabour THEN get_labour_summary(labour_df, None, OrNone(m), OrNoneText(a))
                                  ELSE get_spares_summary(spares_df, None, OrNone(m), OrNoneText(a))
       /\ (IsSummary /\ NoAdvisor) =>
             result = IF OnLabour THEN get_labour_summary(labour_df, OrNone(d), OrNone(m), NoneText)
                                  ELSE get_spares_summary(spares_df, OrNone(d), OrNone(m), NoneText)
       /\ (IsData /\ NoId) =>
             result.rows = IF OnLabour THEN get_labour_data(labour_df, None, OrNone(m), OrNoneText(a))
                                       ELSE get_spares_data(spares_df, None, OrNone(m), OrNoneText(a))
       /\ (IsData /\ NoAdvisor) =>
             result.rows = IF OnLabour THEN get_labour_data(labour_df, OrNone(d), OrNone(m), NoneText)
                                       ELSE get_spares_data(spares_df, OrNone(d), OrNone(m), NoneText)
       /\ (IsExport /\ NoId) =>
             result = IF OnLabour THEN export_labour_data(labour_df, None, m, a)
                                  ELSE export_spares_data(spares_df, None, m, a)
       /\ (IsExport /\ NoAdvisor) =>
             result = IF OnLabour THEN export_labour_data(labour_df, d, m, NoneText)
                                  ELSE export_spares_data(spares_df, d, m, NoneText)

----------------------------------------------------------------------------
(* C8: when the description column is present and non-null for every       *)
(* filtered record, the counts of the rows of the grouped breakdown add up *)
(* to the number of records that survive the filter.                       *)

CountOf(row) == IF "count" \in DOMAIN row THEN row["count"] ELSE row["Count"]

C8_GroupCountsAddUp ==
    (op \in {"/api/labour/data", "/api/labour/export"}
        /\ HasCol(labour_df, "Labour Description")
        /\ \A i \in DOMAIN filtered.rows : filtered.rows[i]["Labour Description"] # Null)
    => LET breakdown == IF op = "/api/labour/data" THEN result.rows ELSE result.dimension
       IN SumOver(breakdown, CountOf) = Len(Survivors)

----------------------------------------------------------------------------
(* C9: in the month summary and in the division summary of a report, for   *)
(* labour and for spares, the Grand Total row holds in every numeric       *)
(* column the sum of that column over the rows emitted before it.          *)

NumericColumns ==
    IF OnLabour THEN {"Count", "Without Tax", "With Tax"}
    ELSE {"Final Qty", "NDP Value", "Selling Price", "MRP Value"}

GrandTotalSumsRows(sheet, label) ==
    sheet # <<>> =>
        LET n == Len(sheet)
            before == SubSeq(sheet, 1, n - 1)
        IN /\ sheet[n][label] = "Grand Total"
           /\ \A c \in NumericColumns :
                 LET Cell(row) == row[c] IN sheet[n][c] = SumOver(before, Cell)

C9_GrandTotals ==
    IsExport => /\ GrandTotalSumsRows(result.month_summary, "Month")
                /\ GrandTotalSumsRows(result.div_summary, "Division")

C9_Witness ==
    /\ IsExport
    /\ Len(result.month_summary) >= 3
    /\ Len(result.div_summary) >= 3
    /\ result.month_summary[Len(result.month_summary)]["Month"] = "Grand Total"

----------------------------------------------------------------------------
(* C10: monthSummary has one row for each fiscal month with at least one   *)
(* filtered record and none for the other months, in fiscal-cycle order,   *)
(* each aggregated over the filtered records of its month, and a single    *)
(* Grand Total row last if and only if a month row was emitted.            *)

MonthRowRight(row, month) ==
    LET InThisMonth(r) == get_month_name(r[DateCol]) = month
        rows == SelectSeq(Survivors, InThisMonth)
    IN /\ row["Month"] = month
       /\ IF OnLabour
          THEN /\ row["Count"] = Len(rows)
               /\ row["Without Tax"] = SumOver(rows, Dis)
               /\ row["With Tax"] = SumOver(rows, Tot)
          ELSE /\ row["Final Qty"] = SumOver(rows, Qty)
               /\ row["NDP Value"] = SumOver(rows, Ndp)
               /\ row["Selling Price"] = SumOver(rows, Sell)
               /\ row["MRP Value"] = SumOver(rows, QtyTimesMrp)

C10_MonthSummary ==
    IsExport =>
        LET months == InCycleOrder(MonthsOf(Survivors))
            sheet == result.month_summary
        IN IF months = <<>> THEN sheet = <<>>
           ELSE /\ Len(sheet) = Len(months) + 1
                /\ \A i \in DOMAIN months : MonthRowRight(sheet[i], months[i])
                /\ sheet[Len(sheet)]["Month"] = "Grand Total"

C10_Witness ==
    /\ IsExport
    /\ ~DivisionFree
    /\ Len(result.month_summary) = 3
    /\ result.month_summary[1]["Month"] = "Apr"
    /\ result.month_summary[2]["Month"] = "Oct"
    /\ result.month_summary[3]["Month"] = "Grand Total"

----------------------------------------------------------------------------
(* C11: the division summary of a report has one row for each division of  *)
(* the divisions listing of the loaded dataset, aggregated over that        *)
(* division's records of the loaded dataset, and a Grand Total row after    *)
(* them; it does not depend on the facet selection.                         *)

DivisionRowRight(row, div) ==
    LET InThisDivision(r) == get_division_from_ro(str(r[IdCol])) = div
        rows == SelectSeq(Dataset.rows, InThisDivision)
    IN /\ row["Division"] = div
       /\ IF OnLabour
          THEN /\ row["Count"] = Len(rows)
               /\ row["Without Tax"] = SumOver(rows, Dis)
               /\ row["With Tax"] = SumOver(rows, Tot)
          ELSE /\ row["Final Qty"] = SumOver(rows, Qty)
               /\ row["NDP Value"] = SumOver(rows, Ndp)
               /\ row["Selling Price"] = SumOver(rows, Sell)
               /\ row["MRP Value"] = SumOver(rows, QtyTimesMrp)

DivisionSummaryRight ==
    LET divs == IF OnLabour THEN get_labour_divisions(labour_df) ELSE get_spares_divisions(spares_df)
        sheet == result.div_summary
    IN IF divs = <<>> THEN sheet = <<>>
       ELSE /\ Len(sheet) = Len(divs) + 1
            /\ \A i \in DOMAIN divs : DivisionRowRight(sheet[i], divs[i])
            /\ sheet[Len(sheet)]["Division"] = "Grand Total"

\* C11 as stated: for every facet selection.
C11_DivisionSummaryEverySelection == IsExport => DivisionSummaryRight

\* C11 amended: for every facet selection that leaves at least one record.
C11_DivisionSummaryOfLoaded == (IsExport /\ ~empty(filtered)) => DivisionSummaryRight

C11_Witness ==
    /\ IsExport
    /\ args.division = "CITY"
    /\ ~DivisionFree
    /\ ~empty(filtered)
    /\ Len(result.div_summary) = 3
    /\ result.div_summary[1]["Division"] = "CITY"
    /\ result.div_summary[2]["Division"] = "HO"

----------------------------------------------------------------------------
(* C12: whenever no record survives the facet selection, or nothing is     *)
(* loaded, the report has no row in any of its four sheets, for labour and  *)
(* for spares.                                                              *)

C12_EmptyViewEmptySheets ==
    (IsExport /\ empty(filtered)) =>
        /\ result.details.rows = <<>>
        /\ result.month_summary = <<>>
        /\ result.div_summary = <<>>
        /\ result.dimension = <<>>

----------------------------------------------------------------------------
(* C13: the dimension sheet of a report has the same rows, with the same   *)
(* numbers, as the grouped breakdown the data request returns for the same *)
(* dataset and facet selection, for labour and for spares, the spares MRP  *)
(* column included; it is empty when the dimension column is absent.       *)

\* What the data request returns for the facet selection being served.
RowsOfSelection ==
    IF OnLabour
    THEN get_labour_data(labour_df, OrNone(args.division), OrNone(args.month), OrNoneText(args.advisor))
    ELSE get_spares_data(spares_df, OrNone(args.division), OrNone(args.month), OrNoneText(args.advisor))

Whole(n) == [num |-> n, den |-> 1]

SameLabourRow(line, row) ==
    /\ line["Labour Description"] = row["Labour Description"]
    /\ line["Count"] = row["count"]
    /\ line["Without Tax"] = row["Labour Basic Amount-DIS"]
    /\ line["With Tax"] = row["Labour Total Amount"]

SameSparesRowButMrp(line, row) ==
    /\ line["Part Desc"] = row.part_desc
    /\ line["Spare Count"] = row.final_qty
    /\ line["NDP Value"] = row.ndp_price_qty
    /\ line["Selling Price"] = row.selling_price_total

SameSparesRow(line, row) ==
    /\ SameSparesRowButMrp(line, row)
    /\ Whole(line["MRP Value"]) = row.mrp_total

C13_DimensionSheetIsRows ==
    IsExport =>
        LET rows == RowsOfSelection
            sheet == result.dimension
        IN /\ Len(sheet) = Len(rows)
           /\ \A i \in DOMAIN rows :
                 IF OnLabour THEN SameLabourRow(sheet[i], rows[i]) ELSE SameSparesRow(sheet[i], rows[i])
           /\ ~HasCol(Dataset, IF OnLabour THEN "Labour Description" ELSE "Part Desc") => sheet = <<>>

----------------------------------------------------------------------------
(* C14: the rows of the grouped breakdown come in the order in which the   *)
(* filtered records first show each dimension value, not sorted by the     *)
(* dimension value.                                                        *)

DimCol == IF OnLabour THEN "Labour Description" ELSE "Part Desc"

KeyOf(row) == IF OnLabour THEN row["Labour Description"] ELSE row.part_desc

\* The place of the first filtered record that carries dimension value k.
FirstSeen(k) ==
    CHOOSE i \in DOMAIN Survivors :
        /\ Survivors[i][DimCol] = k
        /\ \A j \in 1..(i - 1) : Survivors[j][DimCol] # k

\* C14 as stated: first-seen order.
C14_RowsInFirstSeenOrder ==
    (IsData /\ HasCol(Dataset, DimCol)) =>
        \A i, j \in DOMAIN result.rows :
            i < j => FirstSeen(KeyOf(result.rows[i])) < FirstSeen(KeyOf(result.rows[j]))

\* C14 amended: ascending order of the dimension value, compared as the
\* exact string.
C14_RowsInAscendingOrder ==
    (IsData /\ HasCol(Dataset, DimCol)) =>
        \A i, j \in DOMAIN result.rows :
            i < j => StrLess(KeyOf(result.rows[i]), KeyOf(result.rows[j]))

C14_Witness ==
    /\ IsData
    /\ Len(Survivors) = 2
    /\ HasCol(Dataset, DimCol)
    /\ Survivors[1][DimCol] = Oil
    /\ Survivors[2][DimCol] = Brak
    /\ Len(result.rows) = 2
    /\ KeyOf(result.rows[1]) = Brak
    /\ KeyOf(result.rows[2]) = Oil

----------------------------------------------------------------------------
(* C15: the grouped breakdown has exactly one row for each distinct exact  *)
(* non-null dimension value among the filtered records; the summed fields  *)
(* of a row are the sums over the filtered records that carry its value,   *)
(* and a record without a dimension value adds to no row.                  *)

DimensionValues == {Survivors[i][DimCol] : i \in DOMAIN Survivors} \ {Null}

Carrying(k) == LET Test(r) == r[DimCol] = k IN SelectSeq(Survivors, Test)

SummedFieldsOfRow(row) ==
    LET rows == Carrying(KeyOf(row))
    IN IF OnLabour
       THEN /\ row["Labour Basic Amount-DIS"] = SumOver(rows, Dis)
            /\ row["Labour Total Amount"] = SumOver(rows, Tot)
       ELSE /\ row.final_qty = SumOver(rows, Qty)
            /\ row.ndp_price_qty = SumOver(rows, Ndp)
            /\ row.selling_price_total = SumOver(rows, Sell)

----------------------------------------------------------------------------
(* C16: in the spares grouped breakdown the MRP total of a group is the    *)
(* sum of the quantity over the group's records times the arithmetic mean  *)
(* of their per-unit MRP, not the sum of quantity times per-unit MRP; it   *)
(* is 0 when the quantity or the MRP column is absent.                     *)

Mrp(r) == Number(r, "MRP (Per Qty)")

\* The records among rows that have a per-unit MRP.
Priced(rows) == LET Test(r) == r["MRP (Per Qty)"] # NaN IN SelectSeq(rows, Test)

\* total = quantity sum x (MRP sum / number of MRP values), as a fraction.
IsSumTimesMean(total, rows) ==
    /\ total.den > 0
    /\ total.num * Len(Priced(rows)) = total.den * SumOver(rows, Qty) * SumOver(Priced(rows), Mrp)

C16_MrpTotalIsSumTimesMean ==
    (op = "/api/spares/data" /\ HasCol(spares_df, "Part Desc")) =>
        \A i \in DOMAIN result.rows :
            LET rows == Carrying(KeyOf(result.rows[i]))
                total == result.rows[i].mrp_total
            IN IF HasCol(spares_df, qty_col) /\ HasCol(spares_df, mrp_col)
               THEN Priced(rows) # <<>> => IsSumTimesMean(total, rows)
               ELSE total = Whole(0)

----------------------------------------------------------------------------
(* C17: when at least one labour record survives the facet selection, the  *)
(* details sheet of the report holds every surviving record, in order,     *)
(* with exactly the columns of required_cols that the loaded sheet has, in *)
(* the order of required_cols: an absent listed column is left out and no  *)
(* column outside the list appears.                                        *)

ListedAndPresent == LET Test(c) == HasCol(labour_df, c) IN SelectSeq(required_cols, Test)

C17_DetailsProjection ==
    (op = "/api/labour/export" /\ ~empty(filtered)) =>
        LET details == result.details
        IN /\ details.columns = ListedAndPresent
           /\ Range(details.columns) \subseteq Range(required_cols)
           /\ Len(details.rows) = Len(Survivors)
           /\ \A i \in DOMAIN details.rows :
                 /\ DOMAIN details.rows[i] = Range(ListedAndPresent)
                 /\ \A c \in Range(ListedAndPresent) : details.rows[i][c] = Survivors[i][c]

C17_Witness ==
    /\ op = "/api/labour/export"
    /\ HasCol(labour_df, "Remarks")
    /\ ~HasCol(labour_df, "Service Advisor")
    /\ labour_df.columns[1] = "Labour Description"
    /\ Len(labour_df.rows) = 2
    /\ Len(result.details.rows) = 1
    /\ result.details.columns =
          <<"RO No.", "Labour Description", "Labour Basic Amount-DIS", "Labour Total Amount", "Bill Date">>

----------------------------------------------------------------------------
(* C18: a record whose date is missing has no fiscal month: no month of    *)
(* the months listing comes from it, it survives no month constraint and   *)
(* it adds to no month row of the month summary; with the month facet      *)
(* unconstrained it is still counted by the summary and by the rows.       *)

Dated(rows) == LET Test(r) == r[DateCol] # NaT IN SelectSeq(rows, Test)

Undated(rows) == LET Test(r) == r[DateCol] = NaT IN SelectSeq(rows, Test)

\* Every listed month is the month of a dated record of the selection.
ListedMonthsAreDated ==
    \A i \in DOMAIN result :
        \E j \in DOMAIN Dated(Survivors) : MONTH_NAMES[Dated(Survivors)[j][DateCol]] = result[i]

\* The month rows together hold the dated records of the selection only.
MonthRowsAreDated ==
    LET sheet == result.month_summary
    IN IF Dated(Survivors) = <<>> THEN sheet = <<>>
       ELSE /\ sheet # <<>>
            /\ IF OnLabour
               THEN /\ sheet[Len(sheet)]["Count"] = Len(Dated(Survivors))
                    /\ sheet[Len(sheet)]["With Tax"] = SumOver(Dated(Survivors), Tot)
               ELSE /\ sheet[Len(sheet)]["Final Qty"] = SumOver(Dated(Survivors), Qty)
                    /\ sheet[Len(sheet)]["NDP Value"] = SumOver(Dated(Survivors), Ndp)

\* The summary takes in every record of the selection, dated or not.
SummaryCountsAll ==
    IF OnLabour
    THEN /\ result.total_items = Len(Survivors)
         /\ result.total_amount = SumOver(Survivors, Tot)
    ELSE /\ result.total_ndp = SumOver(Survivors, Ndp)

\* Every record of the selection that has a dimension value, dated or not,
\* is in the row of its value.
RowsCountAll ==
    HasCol(Dataset, DimCol) =>
        /\ \A j \in DOMAIN Survivors :
              Survivors[j][DimCol] # Null =>
                  \E i \in DOMAIN result.rows : KeyOf(result.rows[i]) = Survivors[j][DimCol]
        /\ \A i \in DOMAIN result.rows : SummedFieldsOfRow(result.rows[i])

C18_NoMonthWithoutDate ==
    /\ IsMonths => ListedMonthsAreDated
    /\ ((IsSummary \/ IsData \/ IsExport \/ IsAdvisors) /\ ~MonthFree) => Undated(filtered.rows) = <<>>
    /\ IsExport => MonthRowsAreDated
    /\ (IsSummary /\ MonthFree) => SummaryCountsAll
    /\ (IsData /\ MonthFree) => RowsCountAll

C18_Witness ==
    /\ op = "/api/labour/data"
    /\ MonthFree
    /\ HasCol(Dataset, DimCol)
    /\ Len(Survivors) = 2
    /\ Survivors[1][DateCol] = 4
    /\ Survivors[2][DateCol] = NaT
    /\ Len(result.rows) = 1
    /\ result.rows[1]["count"] = 2
    /\ result.rows[1]["Labour Total Amount"] = 69

----------------------------------------------------------------------------
(* C19: the facet filter is deterministic and idempotent.  A request sent  *)
(* again with the same facet selection, whatever requests were served in   *)
(* between, is served from the same filtered view and gets the same        *)
(* result; and the predicates of a selection applied to the view they      *)
(* produced leave it as it is.                                             *)

\* The view of the request filtered once more by the same selection.
Refiltered ==
    apply_filters(filtered, IdCol, DateCol, OrNone(args.division), OrNone(args.month),
                  OrNoneText(args.advisor))

AppliesFilter == IsSummary \/ IsData \/ IsExport \/ IsAdvisors

\* The request being served is the one whose response was kept.
SameRequestAgain == op # "idle" /\ earlier # NoCall /\ op = earlier.op /\ args = earlier.args

C19_FilterRepeatable ==
    /\ AppliesFilter => Refiltered = filtered
    /\ SameRequestAgain => (filtered = earlier.filtered /\ result = earlier.result)

C19_Witness ==
    /\ SameRequestAgain
    /\ op = "/api/labour/summary"
    /\ ~MonthFree
    /\ ~AdvisorFree
    /\ Len(labour_df.rows) = 2
    /\ Len(filtered.rows) = 1
    /\ result.total_items = 1

----------------------------------------------------------------------------
(* C20: whatever requests are served, the loaded labour and spares frames  *)
(* keep the records, the order and the columns they had after loading; the *)
(* helper column _rowcount_ that the grouping adds is never a column of a  *)
(* loaded frame.                                                           *)

C20_LoadedFramesKept ==
    /\ [](~HasCol(labour_df, "_rowcount_") /\ ~HasCol(spares_df, "_rowcount_"))
    /\ [][labour_df' = labour_df /\ spares_df' = spares_df]_vars

\* A request served with the helper column set on a local frame that has
\* every record of the loaded frame.
C20_Witness ==
    /\ op \in {"/api/labour/data", "/api/labour/export"}
    /\ ~HasCol(labour_df, "RO No.")
    /\ HasCol(with_rowcount(filtered), "_rowcount_")
    /\ Len(filtered.rows) = 2
    /\ Len(labour_df.rows) = 2
    /\ op = "/api/labour/data" => result.rows[1]["count"] >= 1

\* C21: a labour report whose computation overlaps a replacement of the
\* loaded frame is computed, all four sheets, from the frame the handler
\* read first.
C21_ReportOfOneSnapshot ==
    job.pc = "done" =>
        result = export_labour_data(job.snapshot, args.division, args.month, args.advisor)

----------------------------------------------------------------------------
(* C27: in a labour report a record of the selection is counted in at most *)
(* one month row, so the Grand Total of the month-wise summary counts the  *)
(* records of the selection that have a date; when a month is asked for    *)
(* and some record has it, the summary is the row of that month, counting  *)
(* every record of the selection, and the Grand Total.                     *)

C27_MonthRowsPartition ==
    op = "/api/labour/export" =>
        LET sheet == result.month_summary
            n == Len(sheet)
        IN /\ (sheet = <<>>) <=> (Dated(Survivors) = <<>>)
           /\ sheet # <<>> =>
                /\ sheet[n]["Month"] = "Grand Total"
                /\ sheet[n]["Count"] = Len(Dated(Survivors))
                /\ \A i, j \in 1..(n - 1) : sheet[i]["Month"] = sheet[j]["Month"] => i = j
           /\ (Truthy(args.month) /\ Survivors # <<>>) =>
                /\ n = 2
                /\ sheet[1]["Month"] = args.month
                /\ sheet[1]["Count"] = Len(Survivors)

\* A report over a dated and an undated record of the selection.
C27_Witness ==
    /\ op = "/api/labour/export"
    /\ Len(Survivors) = 2
    /\ Len(Dated(Survivors)) = 1
    /\ result.month_summary # <<>>

----------------------------------------------------------------------------
(* C28: in a labour report whose selection is not empty, the Grand Total   *)
(* of the Division Summary counts the loaded records whose division is     *)
(* not Unknown, whatever the selection; it is the count of the summary     *)
(* without facets exactly when no loaded record resolves to Unknown.       *)

DivisionOfLoaded(r) ==
    IF HasCol(labour_df, "RO No.") THEN get_division_from_ro(str(r["RO No."])) ELSE "Unknown"

KnownDivision(r) == DivisionOfLoaded(r) # "Unknown"

UnfilteredSummary == get_labour_summary(labour_df, None, None, NoneText)

C28_DivisionGrandTotalCountsKnown ==
    (op = "/api/labour/export" /\ ~empty(filtered)) =>
        LET sheet == result.div_summary
            n == Len(sheet)
            known == SelectSeq(labour_df.rows, KnownDivision)
        IN /\ (sheet = <<>>) <=> (known = <<>>)
           /\ sheet # <<>> =>
                /\ sheet[n]["Division"] = "Grand Total"
                /\ sheet[n]["Count"] = Len(known)
                /\ (sheet[n]["Count"] = UnfilteredSummary.total_items)
                      <=> (\A i \in DOMAIN labour_df.rows : KnownDivision(labour_df.rows[i]))

\* A report over a sheet with a record of a known division and a record of
\* none, the selection being narrower than the sheet.
C28_Witness ==
    /\ op = "/api/labour/export"
    /\ ~empty(filtered)
    /\ Len(filtered.rows) < Len(labour_df.rows)
    /\ result.div_summary # <<>>
    /\ \E i \in DOMAIN labour_df.rows : ~KnownDivision(labour_df.rows[i])

----------------------------------------------------------------------------
(* C29: when a request carries a non-empty advisor value and the sheet has *)
(* the advisor column, every record the handler keeps has an advisor that  *)
(* is not null and whose trimmed text is the value asked for, so a record  *)
(* with a null advisor is kept under no advisor value; the empty string    *)
(* selects what no advisor value selects.                                  *)

AdvisorOf(r) == r["Service Advisor"]

C29_AdvisorExactAfterTrim ==
    ((IsSummary \/ IsData \/ IsExport) /\ HasCol(Dataset, "Service Advisor")) =>
        /\ TruthyText(args.advisor) =>
              \A i \in DOMAIN filtered.rows :
                  /\ AdvisorOf(filtered.rows[i]) # Null
                  /\ strip(AdvisorOf(filtered.rows[i])) = args.advisor
        /\ args.advisor = <<>> =>
              filtered.rows = filter_month(filter_division(Dataset, IdCol, args.division),
                                           DateCol, args.month).rows

----------------------------------------------------------------------------
(* C24: the option lists and the filter agree.  Every division listed,     *)
(* every month listed for it and every advisor listed for the two select   *)
(* at least one record; and of every record a selection keeps, the known   *)
(* division is a listed division, the month is listed for the division     *)
(* asked for, and the trimmed non-empty advisor is listed for the division *)
(* and month asked for.                                                    *)

ListDivisions ==
    IF OnLabour THEN get_labour_divisions(labour_df) ELSE get_spares_divisions(spares_df)

ListMonths(d) ==
    IF OnLabour THEN get_labour_months_for_division(labour_df, d)
    ELSE get_spares_months_for_division(spares_df, d)

ListAdvisors(d, m) ==
    IF OnLabour THEN get_labour_advisors_any(labour_df, d, m)
    ELSE get_spares_advisors_any(spares_df, d, m)

View(d, m, a) == apply_filters(Dataset, IdCol, DateCol, d, m, a)

\* Every option offered down the cascade selects something.
OptionsSelectRecords ==
    IsDivisions =>
        \A i \in DOMAIN result :
            \A j \in DOMAIN ListMonths(result[i]) :
                LET d == result[i]
                    m == ListMonths(d)[j]
                IN /\ ~empty(View(d, m, NoneText))
                   /\ \A k \in DOMAIN ListAdvisors(d, m) : ~empty(View(d, m, ListAdvisors(d, m)[k]))

DivisionOfKept(r) ==
    IF HasCol(Dataset, IdCol) THEN get_division_from_ro(str(r[IdCol])) ELSE "Unknown"

\* Every record kept shows up in the option lists.
KeptRecordsAreOffered ==
    (IsSummary \/ IsData \/ IsExport) =>
        \A i \in DOMAIN filtered.rows :
            LET r == filtered.rows[i]
                d == OrNone(args.division)
                m == OrNone(args.month)
            IN /\ DivisionOfKept(r) # "Unknown" => DivisionOfKept(r) \in Range(ListDivisions)
               /\ r[DateCol] # NaT => get_month_name(r[DateCol]) \in Range(ListMonths(d))
               /\ ("Service Advisor" \in DOMAIN r /\ r["Service Advisor"] # Null
                      /\ strip(r["Service Advisor"]) # <<>>)
                    => strip(r["Service Advisor"]) \in Range(ListAdvisors(d, m))

C24_OptionsAgreeWithFilter == OptionsSelectRecords /\ KeptRecordsAreOffered

----------------------------------------------------------------------------
(* C23: summary, rows and report never raise; when the computation fails   *)
(* inside, the operation answers its empty result: the all-zero summary,   *)
(* the empty row list, the four empty sheets.                              *)

FailedInside ==
    \/ op = "/api/labour/summary" /\ summary_raises(filtered)
    \/ op = "/api/labour/data" /\ data_raises(filtered)
    \/ op = "/api/labour/export" /\ export_raises(labour_df, filtered)

EmptyResult ==
    IF op = "/api/labour/summary" THEN [total_items |-> 0, total_dis |-> 0, total_amount |-> 0]
    ELSE IF op = "/api/labour/data" THEN [rows |-> <<>>]
    ELSE [details |-> EmptyDataFrame, month_summary |-> <<>>, div_summary |-> <<>>, dimension |-> <<>>]

C23_FailureGivesEmptyResult ==
    /\ result # Raised
    /\ FailedInside => result = EmptyResult

----------------------------------------------------------------------------
(* C25: whatever the user changed and in whatever order the responses      *)
(* came, once no function of the script waits for a response the summary   *)
(* section and the table show the summary and the rows of the tab,         *)
(* division, month and advisor selected.                                   *)

SelectedView ==
    Rendered(ui.tab, fetch_summary(ui.tab, ui.division, ui.month, ui.advisor),
             fetch_data(ui.tab, ui.division, ui.month, ui.advisor))

C25_ShownIsSelected ==
    (ui # NoUi /\ Quiet) => (ui.cards = SelectedView.cards /\ ui.table = SelectedView.table)

----------------------------------------------------------------------------
(* C26: once no function of the script waits for a response, the month     *)
(* selected is "no constraint" or a month listed for the division          *)
(* selected, and the advisor selected is "no constraint" or an advisor     *)
(* listed for the division and month selected.                             *)

C26_SelectionIsListed ==
    (ui # NoUi /\ Quiet) =>
        /\ ui.month \in {""} \cup Range(fetch_months(ui.tab, ui.division))
        /\ ui.advisor \in {<<>>} \cup Range(fetch_advisors(ui.tab, ui.division, ui.month))

----------------------------------------------------------------------------
(* C22: when the user changes the division, the month list is recomputed   *)
(* for the division picked and the advisor list for that division and the  *)
(* month selected after it; as claimed, the month and the advisor selected  *)
(* return to "no constraint".  Recomputed: the list, cleared at the change, *)
(* holds at the response the options listed for the division, and nothing  *)
(* else when no other function of the script has been waiting since.       *)

\* The step is the continuation of the waiting function t.
Answered(t) ==
    /\ CopiesIn(t, ui.tasks) > CopiesIn(t, ui'.tasks)
    /\ BagCardinality(ui'.tasks) <= BagCardinality(ui.tasks)

MonthsRecomputed(t) ==
    /\ Range(fetch_months(t.tab, t.division)) \subseteq ui'.months
    /\ t.alone => /\ ui'.division = t.division
                  /\ ui'.months = Range(fetch_months(ui'.tab, ui'.division))

AdvisorsRecomputed(t) ==
    /\ Range(fetch_advisors(t.tab, t.division, t.month)) \subseteq ui'.advisors
    /\ t.alone => /\ ui'.division = t.division /\ ui'.month = t.month
                  /\ ui'.advisors = Range(fetch_advisors(ui'.tab, ui'.division, ui'.month))

C22_DivisionChangeResets ==
    [][\A t \in BagToSet(ui.tasks) :
          (Answered(t) /\ t.then = "division") =>
              /\ t.pc = "months" => (MonthsRecomputed(t) /\ ui'.month = "")
              /\ t.pc = "advisors" => (AdvisorsRecomputed(t) /\ ui'.advisor = <<>>)]_vars

\* C22 as the script has it: the month and the advisor that were selected
\* stay selected when the recomputed list still offers them, and return to
\* "no constraint" when it does not.
C22_DivisionChangeKeepsOffered ==
    [][\A t \in BagToSet(ui.tasks) :
          (Answered(t) /\ t.then = "division") =>
              /\ t.pc = "months" =>
                    /\ MonthsRecomputed(t)
                    /\ ui'.month = IF t.current \in ui'.months THEN t.current ELSE ""
              /\ t.pc = "advisors" =>
                    /\ AdvisorsRecomputed(t)
                    /\ ui'.advisor = IF t.current \in ui'.advisors THEN t.current ELSE <<>>]_vars

\* A change of division, with nothing else waiting, kept the month that was
\* selected, and the advisors of the division and that month are asked for.
C22_Witness ==
    /\ ui # NoUi
    /\ \E t \in BagToSet(ui.tasks) :
          /\ t.pc = "advisors" /\ t.then = "division" /\ t.alone
          /\ t.month # "" /\ ui.month = t.month /\ ui.division = t.division

====
